---- MODULE Spec2Model ----
(***************************************************************************)
(* A model of the secure-discovery core of RustDDS: the handshake state    *)
(* machine of SecureDiscovery (discovery/secure_discovery.rs) as it acts   *)
(* on DiscoveryDB, the stateless-message writer and the notification       *)
(* channel to the DP event loop.                                           *)
(*                                                                         *)
(* A participant is named by its GuidPrefix.  The security plugins are     *)
(* exchangeable objects behind SecurityPlugins; the result of every plugin *)
(* call is an input of the handler that makes the call.                    *)
(***************************************************************************)
EXTENDS Integers, Sequences, FiniteSets, TLC

\* ------------------------------------------------------------------ bounds

\* GuidPrefix values of the participants that run SecureDiscovery.
Participants == {1, 2}

\* GuidPrefix of a participant that only appears as the destination of
\* messages meant for somebody else.
Bystander == (CHOOSE n \in 1..8 : \A q \in Participants : q < n)

\* The local participants of specification Spec; the others are its remotes.
SpecLocals == {1}

\* Sequence numbers a remote may put into the message_identity of a message.
MaxRemoteSeq == 1

\* ------------------------------------------------------------- HashMap ops

MapInsert(f, key, value) ==
  [k \in (DOMAIN f) \cup {key} |-> IF k = key THEN value ELSE f[k]]

MapRemove(f, key) == [k \in (DOMAIN f) \ {key} |-> f[k]]

EmptyMap == [k \in {} |-> 0]

\* Option<T> is a set with at most one element.
Some(x) == {x}
None == {}
Unwrap(opt) == CHOOSE x \in opt : TRUE

\* --------------------------------------------------------------- constants

STORED_AUTH_MESSAGE_MAX_RESEND_COUNT == 10

GMCLASSID_SECURITY_AUTH_HANDSHAKE == "dds.sec.auth"

DiscHandshakeState ==
  { "PendingRequestSend", "PendingReplyMessage", "CompletedWithFinalMessageSent",
    "PendingRequestMessage", "PendingFinalMessage",
    "CompletedWithFinalMessageReceived" }

AuthenticationStatus ==
  { "Authenticated", "Authenticating", "Unauthenticated", "Rejected" }

\* ------------------------------------------------------------------- state

VARIABLES
  handshake_states,                \* [local -> HashMap remote -> DiscHandshakeState]
  stored_authentication_messages,  \* [local -> HashMap remote -> StoredAuthenticationMessage]
  next_seqnum,                     \* [local -> generic_message_helper.next_seqnum]
  local_dp_sec_attributes,         \* [local -> ParticipantSecurityAttributes]
  authentication_status,           \* DiscoveryDB: [local -> HashMap remote -> AuthenticationStatus]
  participant_proxies,             \* DiscoveryDB: [local -> set of remotes with a participant proxy]
  available_builtin_endpoints,     \* [participant -> the built-in endpoints its SPDP data announces]
  discovery_updated,               \* [local -> queue of ParticipantUpdated{guid_prefix}]
  net,                             \* ParticipantStatelessMessage samples in flight
  last                             \* the handler that ran last, its inputs and what it did

\* The DP event loop of a participant (rtps/dp_event_loop.rs).
VARIABLES
  writers,                         \* [local -> HashMap EntityId -> Writer]
  available_readers,               \* [local -> message_receiver.available_readers]
  discovery_command                \* [local -> queue of DiscoveryCommand to Discovery]

\* The poller of the event loop, its command channels and the user side of the
\* participant (dds/participant.rs).
VARIABLES
  channel,                         \* [channel name -> queue of messages]
  readiness,                       \* tokens whose readiness event is queued in the poller
  events,                          \* tokens of the last poll still to be handled
  event_loop,                      \* event_loop(): [returned, preparing_to_stop, acknack_timer, ...]
  poll_registered,                 \* entity and timer tokens registered in the poller
  app                              \* the application: its participant and entities

\* A call of DomainParticipantInner::new in progress.
VARIABLES
  construction                     \* [pc, participant_id, discovery_listener, ...]

\* DomainParticipantInner::find_topic and what it reads.
VARIABLES
  find,                            \* the find_topic call: [pc, name, find_end, ...]
  now,                             \* Instant::now()
  topics,                          \* names of the topics in DiscoveryDB
  discovery_db_event,              \* number of () queued in the discovery_db_event channel
  registration                     \* discovery_db_event_receiver is registered with a Poll

\* One channel between two threads, its sender's call and its receiver.
VARIABLES
  chan,                            \* which channel
  queued,                          \* number of messages in it
  connected,                       \* its receiver has not been dropped
  call,                            \* the sending call: [pc, result, full]
  stop_commands                    \* EventLoopCommands sent so far

\* CryptographicBuiltin and one use of its CryptoTransform.
VARIABLES
  codec,                           \* [op, plain, key, receiver_specific, encoded, decoded]
  crypto,                          \* the endpoint tables of CryptographicBuiltin
  preprocessed                     \* [prefix, result] of preprocess_secure_submessage

\* The event loop's dispatch of what Discovery and the message receiver send it.
VARIABLES
  local_writers,                   \* HashMap EntityId -> Writer: [topic_name, is_reliable, readers]
  local_readers,                   \* HashMap EntityId -> Reader: [topic_name, matched_writers]
  discovery_update_notification,   \* queue of DiscoveryNotificationType
  ack_nack,                        \* queue of (sender prefix, ACKNACK or NACK_FRAG)
  dispatched                       \* [calls of the last handler on writers and readers, handled so far]

\* One reliable writer, one matched reliable reader and the transport between.
VARIABLES
  rtps_writer,                     \* [depth, history, last, heartbeat_count, requested_changes, ...]
  writer_proxy,                    \* reader side: [received, missing, irrelevant, last_heartbeat_count, ...]
  wire,                            \* submessages in flight
  transport                        \* [suppressed]: the sequence numbers whose DATA the transport lost

\* A call of DomainParticipantBuilder::build.
VARIABLES
  build                            \* [pc, plugins, result, handles, sockets_bound, threads_started]

\* The DiscoveryDB lock and the two threads that take it.
VARIABLES
  discovery_db,                    \* RwLock<DiscoveryDB>: [writer, readers]
  discovery_thread,                \* where the discovery thread is
  dp_event_loop,                   \* where the event loop thread is
  backlog                          \* [notifications, commands] queued between the two

\* DomainParticipantDisc::new_entity_id and the threads that call it.
VARIABLES
  entity_id_generator,             \* AtomicU32: [value as its big-endian bytes, calls made here]
  new_entity_id_calls,             \* [thread -> [pc, entity_kind, fetched]]
  entity_ids                       \* [earlier, returned, repeated]: the EntityIds given out

\* What was sent to the event loop on its channels and what it has handled.
VARIABLES
  delivery                         \* [sent, handled: [channel -> messages], taken by the last handler]

discoveryVars ==
  << handshake_states, stored_authentication_messages, next_seqnum,
     local_dp_sec_attributes, authentication_status, participant_proxies,
     available_builtin_endpoints, discovery_updated, net, last >>

eventLoopVars == << writers, available_readers, discovery_command >>

reactorVars == << channel, readiness, events, event_loop, poll_registered, app >>

constructionVars == << construction >>

findTopicVars == << find, now, topics, discovery_db_event, registration >>

channelVars == << chan, queued, connected, call, stop_commands >>

cryptoVars == << codec, crypto, preprocessed >>

dispatchVars ==
  << local_writers, local_readers, discovery_update_notification, ack_nack, dispatched >>

reliableVars == << rtps_writer, writer_proxy, wire, transport >>

buildVars == << build >>

lockVars == << discovery_db, discovery_thread, dp_event_loop, backlog >>

entityVars == << entity_id_generator, new_entity_id_calls, entity_ids >>

deliveryVars == << delivery >>

runtimeVars == << dispatchVars, reliableVars, buildVars, lockVars, entityVars, deliveryVars >>

restVars == << constructionVars, findTopicVars, channelVars, cryptoVars, runtimeVars >>

vars == << discoveryVars, eventLoopVars, reactorVars, restVars >>

\* DPEventLoop::new: no writer and no reader yet, nothing sent to Discovery.
EventLoopNew ==
  /\ writers = [l \in Participants |-> EmptyMap]
  /\ available_readers = [l \in Participants |-> EmptyMap]
  /\ discovery_command = [l \in Participants |-> << >>]

\* What a specification of SecureDiscovery alone says of the rest of the
\* participant: it is as constructed and stays so.
\* The command channels into the event loop.
EventLoopChannels ==
  { "stop_poll", "add_reader", "remove_reader", "add_writer", "remove_writer" }

\* The channels of the event loop whose handlers take every message queued.
DeliveryChannels ==
  { "add_reader", "remove_reader", "add_writer", "remove_writer",
    "discovery_updated", "acknack" }

\* The threads of the application that make entities.
EntityThreads == { "t1", "t2" }

\* The local readers and writers an application makes.
UserReaders == { "R1", "R2" }
UserWriters == { "W1", "W2" }

\* DomainParticipantInner::new and the start of event_loop: empty channels,
\* nothing ready, the loop about to poll, no entity.
ReactorNew ==
  /\ channel = [c \in EventLoopChannels |-> << >>]
  /\ readiness = << >>
  /\ events = << >>
  /\ event_loop = [ returned |-> FALSE, preparing_to_stop |-> FALSE,
                    acknack_timer |-> "armed", preemptive_acknacks |-> 0,
                    stop_poll_error |-> "" ]
  /\ poll_registered = {}
  /\ app = [ participant |-> "alive",
             entities |-> [e \in UserReaders \cup UserWriters |-> "none"] ]

\* DomainParticipantInner::new has come to the search for a participant id.
ConstructionNew ==
  construction = [ pc |-> "bind", participant_id |-> 0, discovery_listener |-> None,
                   failed |-> {}, result |-> None, event_loop_spawned |-> FALSE ]

\* The parts of the participant that a specification of one part leaves as
\* they are made.
\* No find_topic call yet, an empty DiscoveryDB, nothing in the
\* discovery_db_event channel, its receiver registered nowhere.
FindTopicNew ==
  /\ find = [ pc |-> "idle", name |-> "", find_end |-> 0, deadline |-> 0, result |-> None,
              calls |-> 0, discovered_in_time |-> FALSE ]
  /\ now = 0
  /\ topics = {}
  /\ discovery_db_event = 0
  /\ registration = FALSE

\* Every channel made by DomainParticipantBuilder::build,
\* DomainParticipantInner::new and DPEventLoop::new.
Channels ==
  EventLoopChannels \cup
    { "discovery_updated", "discovery_command", "spdp_liveness", "discovery_db_event",
      "acknack", "discovery_join_handle" }

\* A new channel: empty, both ends alive, nobody sending.
ChannelNew(c) ==
  /\ chan = c
  /\ queued = 0
  /\ connected = TRUE
  /\ call = [ pc |-> "idle", result |-> None, full |-> FALSE ]
  /\ stop_commands = {}

\* Nothing given to the CryptoTransform yet.
CodecNew ==
  codec = [ op |-> "none", plain |-> << >>, key |-> "NONE", receiver_specific |-> FALSE,
            encoded |-> None, decoded |-> None ]

\* CryptographicBuiltin::new: no participant, endpoint or key registered.
CryptoNew ==
  /\ crypto = [ participant_to_endpoint_info |-> None, decode_key_materials |-> << >>,
                matched_local_endpoint |-> << >> ]
  /\ preprocessed = None

\* DPEventLoop::new: no local writer or reader, nothing in the channels.
DispatchNew ==
  /\ local_writers = EmptyMap
  /\ local_readers = EmptyMap
  /\ discovery_update_notification = << >>
  /\ ack_nack = << >>
  /\ dispatched = [ calls |-> {}, handled |-> 0 ]

\* A writer that has published nothing and a reader that has heard nothing.
ReliableNew ==
  /\ rtps_writer = [ depth |-> 1, history |-> {}, last |-> 0, heartbeat_count |-> 0,
                     last_ack_count |-> 0, highest_acked_sn |-> 0,
                     requested_changes |-> {}, stopped |-> FALSE ]
  /\ writer_proxy = [ received |-> {}, missing |-> {}, irrelevant |-> {},
                      last_heartbeat_count |-> 0, ack_count |-> 0 ]
  /\ wire = {}
  /\ transport = [ suppressed |-> {} ]

\* DomainParticipantBuilder::build has not been called.
BuildNew ==
  build = [ pc |-> "new", plugins |-> None, result |-> "", handles |-> {},
            sockets_bound |-> FALSE, threads_started |-> {} ]

\* Nobody holds the DiscoveryDB lock, both threads are between two handlers.
LockNew ==
  /\ discovery_db = [ writer |-> None, readers |-> {} ]
  /\ discovery_thread = [ pc |-> "idle" ]
  /\ dp_event_loop = [ pc |-> "idle" ]
  /\ backlog = [ notifications |-> 0, commands |-> 0 ]

\* No call of new_entity_id has been made.
EntityNew ==
  /\ entity_id_generator = [ value |-> << 0, 0, 0, 0 >>, calls |-> 0 ]
  /\ new_entity_id_calls = [t \in EntityThreads |-> [ pc |-> "idle", entity_kind |-> "", fetched |-> << >> ]]
  /\ entity_ids = [ earlier |-> [ calls |-> << 0, 0, 0, 0 >>, entity_kind |-> "" ],
                    returned |-> {}, repeated |-> {} ]

\* Nothing has been sent to the event loop.
DeliveryNew ==
  delivery = [ sent |-> [c \in DeliveryChannels |-> << >>],
               handled |-> [c \in DeliveryChannels |-> << >>],
               taken |-> 0 ]

RuntimeNew == DispatchNew /\ ReliableNew /\ BuildNew /\ LockNew /\ EntityNew /\ DeliveryNew

RestNew == ConstructionNew /\ FindTopicNew /\ ChannelNew("discovery_command") /\ CodecNew /\ CryptoNew /\ RuntimeNew

OutsideDiscoveryNew == EventLoopNew /\ ReactorNew /\ RestNew

outsideDiscoveryVars == << eventLoopVars, reactorVars, restVars >>

\* The state of one SecureDiscovery and of the objects its handlers are handed,
\* as the record the handlers below transform.  writes and calls log what the
\* running handler wrote to auth_msg_writer and which plugin functions it
\* called.
World(l) ==
  [ handshake_states |-> handshake_states[l],
    stored_authentication_messages |-> stored_authentication_messages[l],
    next_seqnum |-> next_seqnum[l],
    authentication_status |-> authentication_status[l],
    participant_proxies |-> participant_proxies[l],
    discovery_updated |-> discovery_updated[l],
    writes |-> << >>,
    calls |-> {} ]

\* GUID::new(prefix, entity_id)
GUID(prefix, entity_id) == [ prefix |-> prefix, entity_id |-> entity_id ]

GUID_UNKNOWN == GUID(0, "UNKNOWN")

local_participant_guid(l) == GUID(l, "PARTICIPANT")

\* SampleIdentity { writer_guid: GUID_UNKNOWN, sequence_number: zero }
GUID_UNKNOWN_IDENTITY == [ writer_guid |-> GUID_UNKNOWN, sequence_number |-> 0 ]

Called(w, f) == [w EXCEPT !.calls = @ \cup {f}]

\* auth_msg_writer.write(message, None), which succeeds or fails.
Write(w, message, ok) ==
  [w EXCEPT !.writes = Append(@, [message |-> message, ok |-> ok])]

\* ------------------------------------------- ParticipantGenericMessageHelper

new_message(w, message_class_id, msg_identity_source_guid, source_endpoint_guid, related_message_opt, destination_guid_prefix, destination_endpoint_guid, data_holders) ==
  [ message_identity |->
      [ writer_guid |-> msg_identity_source_guid,
        sequence_number |-> w.next_seqnum ],
    related_message_identity |->
      IF related_message_opt # None
      THEN Unwrap(related_message_opt).message_identity
      ELSE GUID_UNKNOWN_IDENTITY,
    destination_participant_guid |-> GUID(destination_guid_prefix, "PARTICIPANT"),
    destination_endpoint_guid |-> destination_endpoint_guid,
    source_endpoint_guid |-> source_endpoint_guid,
    message_class_id |-> message_class_id,
    message_data |-> data_holders ]

\* get_next_seqnum: the helper's counter after a message has been made.
get_next_seqnum(w) == [w EXCEPT !.next_seqnum = @ + 1]

new_stateless_message(l, w, message_class_id, destination_guid_prefix, related_message_opt, handshake_token) ==
  new_message(w, message_class_id, local_participant_guid(l), GUID_UNKNOWN,
              related_message_opt, destination_guid_prefix, GUID_UNKNOWN,
              << handshake_token >>)

new_volatile_message(w, message_class_id, volatile_writer_guid, source_endpoint_guid, destination_guid_prefix, destination_endpoint_guid, crypto_tokens) ==
  new_message(w, message_class_id, volatile_writer_guid, source_endpoint_guid,
              None, destination_guid_prefix, destination_endpoint_guid,
              crypto_tokens)

source_guid_prefix(message) == message.message_identity.writer_guid.prefix

get_handshake_token_from_stateless_message(message) ==
  IF Len(message.message_data) > 0 THEN Some(message.message_data[1]) ELSE None

StoredAuthenticationMessage_new(message) ==
  [ message |-> message,
    remaining_resend_counter |-> STORED_AUTH_MESSAGE_MAX_RESEND_COUNT ]

\* ------------------------------------------------------------ small helpers

get_handshake_state(w, remote_guid_prefix) ==
  IF remote_guid_prefix \in DOMAIN w.handshake_states
  THEN Some(w.handshake_states[remote_guid_prefix])
  ELSE None

update_handshake_state(w, remote_guid_prefix, state) ==
  [w EXCEPT !.handshake_states = MapInsert(@, remote_guid_prefix, state)]

\* DiscoveryDB::update_authentication_status
update_authentication_status(w, guid_prefix, status) ==
  [w EXCEPT !.authentication_status = MapInsert(@, guid_prefix, status)]

get_authentication_status(w, guid_prefix) ==
  IF guid_prefix \in DOMAIN w.authentication_status
  THEN Some(w.authentication_status[guid_prefix])
  ELSE None

send_discovery_notification(w, guid_prefix) ==
  [w EXCEPT !.discovery_updated = Append(@, guid_prefix)]

update_participant_authentication_status_and_notify_dp(w, guid_prefix, new_status) ==
  send_discovery_notification(
    update_authentication_status(w, guid_prefix, new_status), guid_prefix)

is_stateless_msg_for_local_participant(l, message) ==
  message.destination_participant_guid = local_participant_guid(l)

\* A variant that accepts every message of a sender we have a stored message
\* for.
check_is_stateless_msg_related_to_any_msg(w, message, sender_guid_prefix) ==
  sender_guid_prefix \in DOMAIN w.stored_authentication_messages

check_is_stateless_msg_related_to_our_msg(w, message, sender_guid_prefix) ==
  IF sender_guid_prefix \in DOMAIN w.stored_authentication_messages
  THEN message.related_message_identity =
         w.stored_authentication_messages[sender_guid_prefix].message.message_identity
  ELSE FALSE

reset_stored_message_resend_counter(w, remote_guid_prefix) ==
  IF remote_guid_prefix \in DOMAIN w.stored_authentication_messages
  THEN [w EXCEPT !.stored_authentication_messages[remote_guid_prefix]
                      .remaining_resend_counter =
                    STORED_AUTH_MESSAGE_MAX_RESEND_COUNT]
  ELSE w

\* ------------------------------------------------- handshake request, resend

\* p.begin_handshake_request is what get_serialized_local_participant_data and
\* the plugin's begin_handshake_request give: "SerializeErr", "Err", or the
\* validation outcome that comes with the request token.
create_handshake_request_message(l, w, remote_guid_prefix, p) ==
  IF p.begin_handshake_request = "PendingHandshakeMessage"
  THEN Some(new_stateless_message(l, w, GMCLASSID_SECURITY_AUTH_HANDSHAKE,
                                  remote_guid_prefix, None, "request"))
  ELSE None

CallsOfHandshakeBegin(w, outcome, f) ==
  IF outcome = "SerializeErr" THEN w ELSE Called(w, f)

\* A variant that sends the request without storing it for the resends.
try_sending_handshake_request_message_unstored(l, w, remote_guid_prefix, p) ==
  LET created == create_handshake_request_message(l, w, remote_guid_prefix, p)
      wc == CallsOfHandshakeBegin(w, p.begin_handshake_request,
                                  "begin_handshake_request")
  IN IF created = None
     THEN wc
     ELSE update_handshake_state(
            Write(get_next_seqnum(wc), Unwrap(created), p.write_ok),
            remote_guid_prefix, "PendingReplyMessage")

try_sending_new_handshake_request_message(l, w, remote_guid_prefix, p) ==
  LET created == create_handshake_request_message(l, w, remote_guid_prefix, p)
      wc == CallsOfHandshakeBegin(w, p.begin_handshake_request,
                                  "begin_handshake_request")
  IN IF created = None
     THEN wc
     ELSE LET request_message == Unwrap(created)
              w1 == get_next_seqnum(wc)
              w2 == [w1 EXCEPT !.stored_authentication_messages =
                       MapInsert(@, remote_guid_prefix,
                                 StoredAuthenticationMessage_new(request_message))]
              w3 == Write(w2, request_message, p.write_ok)
          IN update_handshake_state(w3, remote_guid_prefix, "PendingReplyMessage")

RECURSIVE resend_each(_, _, _)
\* The loop over stored_authentication_messages.iter_mut(); write_ok[g] is the
\* result of the write for remote g.
resend_each(w, todo, write_ok) ==
  IF todo = {}
  THEN w
  ELSE LET g == CHOOSE x \in todo : \A y \in todo : x <= y
           stored_message == w.stored_authentication_messages[g]
           w1 == IF get_handshake_state(w, g) # Some("CompletedWithFinalMessageSent")
                 THEN IF write_ok[g]
                      THEN [Write(w, stored_message.message, TRUE) EXCEPT
                              !.stored_authentication_messages[g]
                                 .remaining_resend_counter = @ - 1]
                      ELSE Write(w, stored_message.message, FALSE)
                 ELSE w
       IN resend_each(w1, todo \ {g}, write_ok)

\* A variant that lets the timer pass without re-sending anything.
resend_unanswered_authentication_messages_idle(w, write_ok) == w

\* A variant that never discards a stored message.
resend_unanswered_authentication_messages_keeping(w, write_ok) ==
  resend_each(w, DOMAIN w.stored_authentication_messages, write_ok)

resend_unanswered_authentication_messages(w, write_ok) ==
  LET w1 == resend_each(w, DOMAIN w.stored_authentication_messages, write_ok)
      kept == { g \in DOMAIN w1.stored_authentication_messages :
                  w1.stored_authentication_messages[g].remaining_resend_counter > 0 }
  IN [w1 EXCEPT !.stored_authentication_messages = [g \in kept |-> @[g]]]

\* A variant that writes the final message twice.
resend_final_handshake_message_twice(w, remote_guid_prefix, p) ==
  IF remote_guid_prefix \in DOMAIN w.stored_authentication_messages
  THEN LET message == w.stored_authentication_messages[remote_guid_prefix].message
       IN Write(Write(w, message, p.write_ok), message, p.write_ok)
  ELSE w

\* A variant that falls back to waiting for the reply.
resend_final_handshake_message_restarting(w, remote_guid_prefix, p) ==
  update_handshake_state(w, remote_guid_prefix, "PendingReplyMessage")

resend_final_handshake_message(w, remote_guid_prefix, p) ==
  IF remote_guid_prefix \in DOMAIN w.stored_authentication_messages
  THEN Write(w, w.stored_authentication_messages[remote_guid_prefix].message,
             p.write_ok)
  ELSE w

\* ------------------------------------------------ completion of a handshake

\* p.validate_remote_permissions is the result of get_authenticated_peer_
\* credential_token followed by validate_remote_permissions.
validate_remote_participant_permissions(w, remote_guid_prefix, p) ==
  /\ remote_guid_prefix \in w.participant_proxies
  /\ p.validate_remote_permissions = "Ok"

\* A variant that takes every remote that completes the handshake.
on_remote_participant_authenticated_trusting(l, w, remote_guid_prefix, p) ==
  update_participant_authentication_status_and_notify_dp(w, remote_guid_prefix,
                                                         "Authenticated")

\* A variant that lets a remote join without asking check_remote_participant.
on_remote_participant_authenticated_unchecked(l, w, remote_guid_prefix, p) ==
  IF validate_remote_participant_permissions(w, remote_guid_prefix, p)
  THEN update_participant_authentication_status_and_notify_dp(
         Called(w, "validate_remote_permissions"), remote_guid_prefix,
         "Authenticated")
  ELSE update_authentication_status(w, remote_guid_prefix, "Rejected")

\* A variant that records the status without telling the DP event loop.
on_remote_participant_authenticated_silent(l, w, remote_guid_prefix, p) ==
  IF validate_remote_participant_permissions(w, remote_guid_prefix, p)
       /\ (local_dp_sec_attributes[l].is_access_protected
             => p.check_remote_participant = "Ok")
  THEN update_authentication_status(w, remote_guid_prefix, "Authenticated")
  ELSE update_authentication_status(w, remote_guid_prefix, "Rejected")

on_remote_participant_authenticated(l, w, remote_guid_prefix, p) ==
  LET w1 == IF remote_guid_prefix \in w.participant_proxies
            THEN Called(w, "validate_remote_permissions")
            ELSE w
  IN IF ~validate_remote_participant_permissions(w, remote_guid_prefix, p)
     THEN update_authentication_status(w1, remote_guid_prefix, "Rejected")
     ELSE IF local_dp_sec_attributes[l].is_access_protected
               /\ p.check_remote_participant # "Ok"
          THEN update_authentication_status(
                 Called(w1, "check_remote_participant"),
                 remote_guid_prefix, "Rejected")
          ELSE update_participant_authentication_status_and_notify_dp(
                 IF local_dp_sec_attributes[l].is_access_protected
                 THEN Called(w1, "check_remote_participant")
                 ELSE w1,
                 remote_guid_prefix, "Authenticated")

\* ------------------------------------------------- received stateless message

handshake_on_pending_request_message(l, w, received_message, p) ==
  LET remote_guid_prefix == source_guid_prefix(received_message)
      handshake_token == get_handshake_token_from_stateless_message(received_message)
  IN IF handshake_token = None
     THEN w
     ELSE LET wc == CallsOfHandshakeBegin(w, p.begin_handshake_reply,
                                          "begin_handshake_reply")
          IN IF p.begin_handshake_reply = "PendingHandshakeMessage"
             THEN LET reply_message ==
                        new_stateless_message(l, wc, GMCLASSID_SECURITY_AUTH_HANDSHAKE,
                                              remote_guid_prefix,
                                              Some(received_message), "reply")
                      w1 == Write(get_next_seqnum(wc), reply_message, p.write_ok)
                      w2 == [w1 EXCEPT !.stored_authentication_messages =
                               MapInsert(@, remote_guid_prefix,
                                         StoredAuthenticationMessage_new(reply_message))]
                  IN update_handshake_state(w2, remote_guid_prefix,
                                            "PendingFinalMessage")
             ELSE wc

handshake_on_pending_reply_message(l, w, received_message, p) ==
  LET remote_guid_prefix == source_guid_prefix(received_message)
      handshake_token == get_handshake_token_from_stateless_message(received_message)
      result == p.process_handshake
  IN IF ~check_is_stateless_msg_related_to_our_msg(w, received_message,
                                                   remote_guid_prefix)
     THEN w
     ELSE IF handshake_token = None
     THEN w
     ELSE LET wc == Called(w, "process_handshake")
          IN IF ~result.err /\ result.outcome = "OkFinalMessage"
                  /\ result.token # None
             THEN LET final_message ==
                        new_stateless_message(l, wc, GMCLASSID_SECURITY_AUTH_HANDSHAKE,
                                              remote_guid_prefix,
                                              Some(received_message),
                                              Unwrap(result.token))
                      w1 == Write(get_next_seqnum(wc), final_message, p.write_ok)
                      w2 == [w1 EXCEPT !.stored_authentication_messages =
                               MapInsert(@, remote_guid_prefix,
                                         StoredAuthenticationMessage_new(final_message))]
                      w3 == update_handshake_state(w2, remote_guid_prefix,
                                                   "CompletedWithFinalMessageSent")
                  IN on_remote_participant_authenticated(l, w3, remote_guid_prefix, p)
             ELSE IF result.err
                  THEN reset_stored_message_resend_counter(wc, remote_guid_prefix)
                  ELSE wc

handshake_on_pending_final_message(l, w, received_message, p) ==
  LET remote_guid_prefix == source_guid_prefix(received_message)
      handshake_token == get_handshake_token_from_stateless_message(received_message)
      result == p.process_handshake
  IN IF ~check_is_stateless_msg_related_to_our_msg(w, received_message,
                                                   remote_guid_prefix)
     THEN w
     ELSE IF handshake_token = None
     THEN w
     ELSE LET wc == Called(w, "process_handshake")
          IN IF ~result.err /\ result.outcome = "Ok" /\ result.token = None
             THEN LET w1 == update_handshake_state(wc, remote_guid_prefix,
                                                   "CompletedWithFinalMessageReceived")
                      w2 == [w1 EXCEPT !.stored_authentication_messages =
                               MapRemove(@, remote_guid_prefix)]
                  IN on_remote_participant_authenticated(l, w2, remote_guid_prefix, p)
             ELSE IF result.err
                  THEN reset_stored_message_resend_counter(wc, remote_guid_prefix)
                  ELSE wc

participant_stateless_message_read(l, w, message, p) ==
  IF ~is_stateless_msg_for_local_participant(l, message)
  THEN w
  ELSE IF message.message_class_id # GMCLASSID_SECURITY_AUTH_HANDSHAKE
  THEN w
  ELSE LET remote_guid_prefix == source_guid_prefix(message)
           state == get_handshake_state(w, remote_guid_prefix)
       IN CASE state = None -> w
            [] state = Some("PendingRequestSend") ->
                 try_sending_new_handshake_request_message(l, w, remote_guid_prefix, p)
            [] state = Some("PendingRequestMessage") ->
                 handshake_on_pending_request_message(l, w, message, p)
            [] state = Some("PendingReplyMessage") ->
                 handshake_on_pending_reply_message(l, w, message, p)
            [] state = Some("PendingFinalMessage") ->
                 handshake_on_pending_final_message(l, w, message, p)
            [] state = Some("CompletedWithFinalMessageSent") ->
                 resend_final_handshake_message(w, remote_guid_prefix, p)
            [] state = Some("CompletedWithFinalMessageReceived") -> w

\* ------------------------------------------------------ SPDP participant data

\* Class ids of the local tokens (they name the plugins that made them).
local_dp_identity_token == [ class_id |-> "auth" ]
local_dp_permissions_token == [ class_id |-> "access" ]

\* ParticipantSecurityInfo::from(local_dp_sec_attributes): the two masks of the
\* local participant, both marked valid.
ParticipantSecurityInfo_from(attributes) ==
  [ participant_security_attributes |->
      [ is_valid |-> TRUE,
        bits |-> << attributes.allow_unauthenticated_participants,
                    attributes.is_access_protected >> ],
    plugin_participant_security_attributes |->
      [ is_valid |-> TRUE, bits |-> << >> ] ]

\* A variant that compares the tokens only.
check_compatibility_of_tokens_only(l, remote_data) ==
  /\ remote_data.identity_token = Some(local_dp_identity_token)
  /\ remote_data.permissions_token = Some(local_dp_permissions_token)

check_compatibility_with_remote_participant(l, remote_data) ==
  IF remote_data.identity_token = None
  THEN FALSE
  ELSE IF local_dp_identity_token.class_id # Unwrap(remote_data.identity_token).class_id
  THEN FALSE
  ELSE IF remote_data.permissions_token = None
  THEN FALSE
  ELSE IF local_dp_permissions_token.class_id
            # Unwrap(remote_data.permissions_token).class_id
  THEN FALSE
  ELSE IF remote_data.security_info = None
  THEN FALSE
  ELSE LET remote_sec_info == Unwrap(remote_data.security_info)
           my_sec_info == ParticipantSecurityInfo_from(local_dp_sec_attributes[l])
           my_mask == my_sec_info.participant_security_attributes
           remote_mask == remote_sec_info.participant_security_attributes
           my_plugin_mask == my_sec_info.plugin_participant_security_attributes
           remote_plugin_mask == remote_sec_info.plugin_participant_security_attributes
       IN IF my_mask.is_valid /\ remote_mask.is_valid
               /\ my_plugin_mask.is_valid /\ remote_plugin_mask.is_valid
          THEN my_sec_info = remote_sec_info
          ELSE FALSE

\* Returns the world and, in field status, the returned AuthenticationStatus.
start_authentication_with_remote(l, w, participant_data, p) ==
  LET remote_guid == participant_data.participant_guid
      outcome == p.validate_remote_identity
      wc == Called(w, "validate_remote_identity")
  IN IF outcome = "Err"
     THEN [ w |-> wc,
            status |-> IF local_dp_sec_attributes[l].allow_unauthenticated_participants
                       THEN "Unauthenticated"
                       ELSE "Rejected" ]
     ELSE LET w1 == [wc EXCEPT !.participant_proxies = @ \cup {remote_guid}]
              w2 == update_participant_authentication_status_and_notify_dp(
                      w1, remote_guid, "Authenticating")
          IN CASE outcome = "PendingHandshakeRequest" ->
                    [ w |-> try_sending_new_handshake_request_message(
                              l,
                              update_handshake_state(w2, remote_guid,
                                                     "PendingRequestSend"),
                              remote_guid, p),
                      status |-> "Authenticating" ]
               [] outcome = "PendingHandshakeMessage" ->
                    [ w |-> update_handshake_state(w2, remote_guid,
                                                   "PendingRequestMessage"),
                      status |-> "Authenticating" ]
               [] OTHER -> [ w |-> w2, status |-> "Rejected" ]

\* A variant that lets normal discovery process the sample of every remote.
participant_data_read_allowing(l, w, participant_data, p) ==
  LET guid_prefix == participant_data.participant_guid
      auth_status_opt == get_authentication_status(w, guid_prefix)
      status == IF auth_status_opt = None THEN "Rejected" ELSE Unwrap(auth_status_opt)
  IN [ w |-> update_authentication_status(w, guid_prefix, status),
       permission |-> "Allow" ]

\* A variant that starts over with a remote that is Rejected.
participant_data_read_forgiving(l, w, participant_data, p) ==
  LET guid_prefix == participant_data.participant_guid
      status == IF get_authentication_status(w, guid_prefix) = Some("Rejected")
                THEN "Authenticating"
                ELSE "Rejected"
  IN [ w |-> update_authentication_status(w, guid_prefix, status),
       permission |-> IF status = "Authenticating" THEN "Allow" ELSE "Deny" ]

\* Returns the world and, in field permission, the NormalDiscoveryPermission.
participant_data_read(l, w, participant_data, p) ==
  LET guid_prefix == participant_data.participant_guid
      auth_status_opt == get_authentication_status(w, guid_prefix)
      updated ==
        CASE auth_status_opt = None ->
               IF check_compatibility_with_remote_participant(l, participant_data)
               THEN start_authentication_with_remote(l, w, participant_data, p)
               ELSE [ w |-> w,
                      status |->
                        IF local_dp_sec_attributes[l].allow_unauthenticated_participants
                        THEN "Unauthenticated"
                        ELSE "Rejected" ]
          [] auth_status_opt = Some("Authenticating") ->
               [ w |-> IF get_handshake_state(w, guid_prefix)
                            = Some("PendingRequestSend")
                       THEN try_sending_new_handshake_request_message(
                              l, w, guid_prefix, p)
                       ELSE w,
                 status |-> "Authenticating" ]
          [] OTHER -> [ w |-> w, status |-> Unwrap(auth_status_opt) ]
  IN [ w |-> update_authentication_status(updated.w, guid_prefix, updated.status),
       permission |-> IF updated.status \in {"Unauthenticated", "Authenticating"}
                      THEN "Allow"
                      ELSE "Deny" ]

\* A variant that lets every dispose through.
participant_dispose_read_allowing(w, guid_prefix) == "Allow"

participant_dispose_read(w, guid_prefix) ==
  LET status == get_authentication_status(w, guid_prefix)
  IN IF status = None \/ status = Some("Unauthenticated") THEN "Allow" ELSE "Deny"

\* ---------------------------------------------------------------- key exchange

GMCLASSID_SECURITY_PARTICIPANT_CRYPTO_TOKENS == "dds.sec.participant_crypto_tokens"
GMCLASSID_SECURITY_DATAWRITER_CRYPTO_TOKENS == "dds.sec.datawriter_crypto_tokens"
GMCLASSID_SECURITY_DATAREADER_CRYPTO_TOKENS == "dds.sec.datareader_crypto_tokens"

P2P_BUILTIN_PARTICIPANT_VOLATILE_SECURE_READER == "PARTICIPANT_VOLATILE_SECURE_READER"
P2P_BUILTIN_PARTICIPANT_VOLATILE_SECURE_WRITER == "PARTICIPANT_VOLATILE_SECURE_WRITER"

\* The secure built-in topics: for each a local writer, the remote reader it
\* matches, and the flag by which a remote announces that reader.
SECURE_BUILTIN_READERS_INIT_LIST ==
  << << "PUBLICATIONS_SECURE_WRITER", "PUBLICATIONS_SECURE_READER",
        "PUBLICATIONS_SECURE_READER" >>,
     << P2P_BUILTIN_PARTICIPANT_VOLATILE_SECURE_WRITER,
        P2P_BUILTIN_PARTICIPANT_VOLATILE_SECURE_READER,
        P2P_BUILTIN_PARTICIPANT_VOLATILE_SECURE_READER >>,
     << "SUBSCRIPTIONS_SECURE_WRITER", "SUBSCRIPTIONS_SECURE_READER",
        "SUBSCRIPTIONS_SECURE_READER" >> >>

\* The same topics: the remote writer, the local reader that matches it, and
\* the flag by which a remote announces that writer.
SECURE_BUILTIN_WRITERS_INIT_LIST ==
  << << "PUBLICATIONS_SECURE_WRITER", "PUBLICATIONS_SECURE_READER",
        "PUBLICATIONS_SECURE_WRITER" >>,
     << P2P_BUILTIN_PARTICIPANT_VOLATILE_SECURE_WRITER,
        P2P_BUILTIN_PARTICIPANT_VOLATILE_SECURE_READER,
        P2P_BUILTIN_PARTICIPANT_VOLATILE_SECURE_WRITER >>,
     << "SUBSCRIPTIONS_SECURE_WRITER", "SUBSCRIPTIONS_SECURE_READER",
        "SUBSCRIPTIONS_SECURE_WRITER" >> >>

\* key_exchange_writer.write_with_options(message, to_single_reader(reader)),
\* which succeeds or fails.
WriteWithOptions(w, message, reader, ok) ==
  [w EXCEPT !.writes = Append(@, [ message |-> message,
                                   to_single_reader |-> reader,
                                   ok |-> ok ])]

\* DiscoveryDB::find_participant_proxy(guid_prefix).available_builtin_endpoints
find_participant_proxy(w, guid_prefix) ==
  IF guid_prefix \in w.participant_proxies
  THEN Some(available_builtin_endpoints[guid_prefix])
  ELSE None

RECURSIVE register_remote_readers(_, _, _, _, _, _)
\* The loop over SECURE_BUILTIN_READERS_INIT_LIST from entry i on; k.readers
\* gives, for a remote reader, what registering it, creating the local
\* writer's tokens and writing them come to.
register_remote_readers(l, w, remote_guid_prefix, remotes_builtin_endpoints, k, i) ==
  IF i > Len(SECURE_BUILTIN_READERS_INIT_LIST)
  THEN w
  ELSE LET writer_eid == SECURE_BUILTIN_READERS_INIT_LIST[i][1]
           reader_eid == SECURE_BUILTIN_READERS_INIT_LIST[i][2]
           reader_endpoint == SECURE_BUILTIN_READERS_INIT_LIST[i][3]
           remote_reader_guid == GUID(remote_guid_prefix, reader_eid)
           local_writer_guid == GUID(l, writer_eid)
           outcome == k.readers[reader_eid]
           w1 == Called(w, "register_matched_remote_reader")
           w2 == Called(w1, "create_local_writer_crypto_tokens")
           vol_msg == new_volatile_message(
                        w2, GMCLASSID_SECURITY_DATAWRITER_CRYPTO_TOKENS,
                        GUID(l, P2P_BUILTIN_PARTICIPANT_VOLATILE_SECURE_WRITER),
                        local_writer_guid, remote_guid_prefix, remote_reader_guid,
                        << "writer_crypto_tokens" >>)
           done ==
             IF reader_endpoint \in remotes_builtin_endpoints
                  /\ reader_eid # P2P_BUILTIN_PARTICIPANT_VOLATILE_SECURE_READER
             THEN IF outcome = "RegisterErr"
                  THEN w1
                  ELSE IF outcome = "TokensErr"
                  THEN w2
                  ELSE WriteWithOptions(
                         get_next_seqnum(w2), vol_msg,
                         GUID(remote_guid_prefix,
                              P2P_BUILTIN_PARTICIPANT_VOLATILE_SECURE_READER),
                         outcome # "WriteErr")
             ELSE w
       IN register_remote_readers(l, done, remote_guid_prefix,
                                  remotes_builtin_endpoints, k, i + 1)

RECURSIVE register_remote_writers(_, _, _, _, _, _)
\* The loop over SECURE_BUILTIN_WRITERS_INIT_LIST from entry i on; k.writers
\* gives, for a remote writer, what registering it, creating the local
\* reader's tokens and writing them come to.
register_remote_writers(l, w, remote_guid_prefix, remotes_builtin_endpoints, k, i) ==
  IF i > Len(SECURE_BUILTIN_WRITERS_INIT_LIST)
  THEN w
  ELSE LET writer_eid == SECURE_BUILTIN_WRITERS_INIT_LIST[i][1]
           reader_eid == SECURE_BUILTIN_WRITERS_INIT_LIST[i][2]
           writer_endpoint == SECURE_BUILTIN_WRITERS_INIT_LIST[i][3]
           remote_writer_guid == GUID(remote_guid_prefix, writer_eid)
           local_reader_guid == GUID(l, reader_eid)
           outcome == k.writers[writer_eid]
           w1 == Called(w, "register_matched_remote_writer")
           w2 == Called(w1, "create_local_reader_crypto_tokens")
           vol_msg == new_volatile_message(
                        w2, GMCLASSID_SECURITY_DATAREADER_CRYPTO_TOKENS,
                        GUID(l, P2P_BUILTIN_PARTICIPANT_VOLATILE_SECURE_WRITER),
                        local_reader_guid, remote_guid_prefix, remote_writer_guid,
                        << "reader_crypto_tokens" >>)
           done ==
             IF writer_endpoint \in remotes_builtin_endpoints
                  /\ writer_eid # P2P_BUILTIN_PARTICIPANT_VOLATILE_SECURE_WRITER
             THEN IF outcome = "RegisterErr"
                  THEN w1
                  ELSE IF outcome = "TokensErr"
                  THEN w2
                  ELSE WriteWithOptions(
                         get_next_seqnum(w2), vol_msg,
                         GUID(remote_guid_prefix,
                              P2P_BUILTIN_PARTICIPANT_VOLATILE_SECURE_READER),
                         outcome # "WriteErr")
             ELSE w
       IN register_remote_writers(l, done, remote_guid_prefix,
                                  remotes_builtin_endpoints, k, i + 1)

\* A variant in which a remote reader that cannot be registered ends the loop.
register_remote_readers_or_stop(l, w, remote_guid_prefix, remotes_builtin_endpoints, k, i) ==
  LET failed == { j \in i..Len(SECURE_BUILTIN_READERS_INIT_LIST) :
                    /\ SECURE_BUILTIN_READERS_INIT_LIST[j][3]
                         \in remotes_builtin_endpoints
                    /\ k.readers[SECURE_BUILTIN_READERS_INIT_LIST[j][2]]
                         = "RegisterErr" }
  IN IF failed = {}
     THEN register_remote_readers(l, w, remote_guid_prefix,
                                  remotes_builtin_endpoints, k, i)
     ELSE Called(w, "register_matched_remote_reader")

\* The first loop of start_key_exchange_with_remote.
register_rest_of_remote_readers(l, w, remote_guid_prefix, remotes_builtin_endpoints, k, i) ==
  register_remote_readers(l, w, remote_guid_prefix, remotes_builtin_endpoints, k, i)

\* A variant that addresses the participant's tokens to no single reader.
send_participant_crypto_tokens_to_all(l, w, remote_guid_prefix, k) ==
  LET wc == Called(w, "create_local_participant_crypto_tokens")
  IN IF k.participant = "TokensErr"
     THEN wc
     ELSE WriteWithOptions(
            get_next_seqnum(wc),
            new_volatile_message(
              wc, GMCLASSID_SECURITY_PARTICIPANT_CRYPTO_TOKENS,
              GUID(l, P2P_BUILTIN_PARTICIPANT_VOLATILE_SECURE_WRITER),
              GUID_UNKNOWN, remote_guid_prefix, GUID_UNKNOWN,
              << "participant_crypto_tokens" >>),
            GUID_UNKNOWN, k.participant # "WriteErr")

\* The part of start_key_exchange_with_remote that sends the local
\* participant's crypto tokens; k.participant is what creating and writing
\* them come to.
send_participant_crypto_tokens(l, w, remote_guid_prefix, k) ==
  LET wc == Called(w, "create_local_participant_crypto_tokens")
  IN IF k.participant = "TokensErr"
     THEN wc
     ELSE WriteWithOptions(
            get_next_seqnum(wc),
            new_volatile_message(
              wc, GMCLASSID_SECURITY_PARTICIPANT_CRYPTO_TOKENS,
              GUID(l, P2P_BUILTIN_PARTICIPANT_VOLATILE_SECURE_WRITER),
              GUID_UNKNOWN, remote_guid_prefix, GUID_UNKNOWN,
              << "participant_crypto_tokens" >>),
            GUID(remote_guid_prefix,
                 P2P_BUILTIN_PARTICIPANT_VOLATILE_SECURE_READER),
            k.participant # "WriteErr")

\* k.register_participant is what get_shared_secret followed by
\* register_matched_remote_participant comes to, k.register_volatile what
\* registering the remote volatile reader and then the writer comes to.
start_key_exchange_with_remote(l, w, remote_guid_prefix, k) ==
  LET w0 == Called(w, "get_shared_secret")
      w1 == IF k.register_participant = "SecretErr"
            THEN w0
            ELSE Called(w0, "register_matched_remote_participant")
      remotes_builtin_endpoints == find_participant_proxy(w, remote_guid_prefix)
      w2 == Called(w1, "register_matched_remote_reader")
      w3 == IF k.register_volatile = "ReaderErr"
            THEN w2
            ELSE Called(w2, "register_matched_remote_writer")
  IN IF k.register_participant # "Ok"
     THEN w1
     ELSE IF remotes_builtin_endpoints = None
     THEN w1
     ELSE IF k.register_volatile # "Ok"
     THEN w3
     ELSE register_remote_writers(
            l,
            register_rest_of_remote_readers(
              l,
              send_participant_crypto_tokens(l, w3, remote_guid_prefix, k),
              remote_guid_prefix, Unwrap(remotes_builtin_endpoints), k, 1),
            remote_guid_prefix, Unwrap(remotes_builtin_endpoints), k, 1)

\* ------------------------------------------------------------------ inputs

ParticipantSecurityAttributes ==
  [ allow_unauthenticated_participants : BOOLEAN, is_access_protected : BOOLEAN ]

RemotesOf(l) == Participants \ {l}

\* The SPDP data of a remote r whose tokens and security info agree with l's.
CompatibleData(l, r) ==
  [ participant_guid |-> r,
    identity_token |-> Some(local_dp_identity_token),
    permissions_token |-> Some(local_dp_permissions_token),
    security_info |-> Some(ParticipantSecurityInfo_from(local_dp_sec_attributes[l])) ]

\* SPDP data a remote may announce: the compatible one, and that one with a
\* token missing or of another class, or with the security info missing, with
\* other attributes, or with one of its masks not valid.
SpdpDiscoveredParticipantData(l, r) ==
  LET ok == CompatibleData(l, r)
      info == ParticipantSecurityInfo_from(local_dp_sec_attributes[l])
      bits == info.participant_security_attributes.bits
  IN {ok}
     \cup { [ok EXCEPT !.identity_token = t] :
              t \in { None, Some([ class_id |-> "other" ]) } }
     \cup { [ok EXCEPT !.permissions_token = t] :
              t \in { None, Some([ class_id |-> "other" ]) } }
     \cup { [ok EXCEPT !.security_info = i] :
              i \in { None,
                      Some([info EXCEPT !.participant_security_attributes.bits =
                                          << ~bits[1], bits[2] >>]),
                      Some([info EXCEPT !.participant_security_attributes.is_valid =
                                          FALSE]),
                      Some([info EXCEPT !.plugin_participant_security_attributes
                                           .is_valid = FALSE]) } }

\* What validate_remote_identity may give: the two handshake outcomes, another
\* outcome, or an error.
ValidateRemoteIdentityResults ==
  { "PendingHandshakeRequest", "PendingHandshakeMessage", "Ok", "Err" }

\* What begin_handshake_request and begin_handshake_reply may give.
BeginHandshakeResults == { "PendingHandshakeMessage", "Ok", "Err", "SerializeErr" }

\* What process_handshake may give: an error, or an outcome with or without a
\* token for the final message.
ProcessHandshakeResults ==
  { [ err |-> TRUE, outcome |-> "Failed", token |-> None ] } \cup
  { [ err |-> FALSE, outcome |-> o, token |-> t ] :
      o \in {"Ok", "OkFinalMessage"}, t \in {None, Some("final")} }

\* The value of an input the handler does not read.
Unused == "unused"
UnusedResult == [ err |-> TRUE, outcome |-> Unused, token |-> None ]

PluginResults(vri, bhreq, bhrep, ph, perm, chk, wok) ==
  [ validate_remote_identity |-> vri, begin_handshake_request |-> bhreq,
    begin_handshake_reply |-> bhrep, process_handshake |-> ph,
    validate_remote_permissions |-> perm, check_remote_participant |-> chk,
    write_ok |-> wok ]

\* Message identities a peer may name as related: none, any identity the local
\* participant has used, and one it has not used.
RelatedIdentities(l) ==
  {GUID_UNKNOWN_IDENTITY} \cup
  { [ writer_guid |-> local_participant_guid(l), sequence_number |-> n ] :
      n \in 1..next_seqnum[l] }

\* ParticipantStatelessMessage samples a remote r may send: handshake messages
\* to l with or without a token, one message for another participant, one of
\* another message class.
StatelessMessagesFrom(l, r) ==
  LET message(n, rel, dest, class, d) ==
        [ message_identity |->
            [ writer_guid |-> local_participant_guid(r), sequence_number |-> n ],
          related_message_identity |-> rel,
          destination_participant_guid |-> local_participant_guid(dest),
          destination_endpoint_guid |-> GUID_UNKNOWN,
          source_endpoint_guid |-> GUID_UNKNOWN,
          message_class_id |-> class,
          message_data |-> d ]
  IN { message(n, rel, l, GMCLASSID_SECURITY_AUTH_HANDSHAKE, d) :
         n \in 1..MaxRemoteSeq, rel \in RelatedIdentities(l),
         d \in { << >>, << "token" >> } }
     \cup
     { message(1, GUID_UNKNOWN_IDENTITY, Bystander,
               GMCLASSID_SECURITY_AUTH_HANDSHAKE, << "token" >>),
       message(1, GUID_UNKNOWN_IDENTITY, l, "other", << "token" >>) }

\* The flags of the secure built-in endpoints a participant may announce.
SecureBuiltinEndpoints ==
  { SECURE_BUILTIN_READERS_INIT_LIST[i][3] :
      i \in 1..Len(SECURE_BUILTIN_READERS_INIT_LIST) } \cup
  { SECURE_BUILTIN_WRITERS_INIT_LIST[i][3] :
      i \in 1..Len(SECURE_BUILTIN_WRITERS_INIT_LIST) }

VolatileSecureEndpoints ==
  { P2P_BUILTIN_PARTICIPANT_VOLATILE_SECURE_READER,
    P2P_BUILTIN_PARTICIPANT_VOLATILE_SECURE_WRITER }

\* What the crypto plugin and the volatile writer may give for one endpoint
\* pair: all well, or the registration, the creation of the tokens or the
\* write fails.
EndpointPairResults == { "Ok", "RegisterErr", "TokensErr", "WriteErr" }

\* For each entity of eids announced in endpoints and not a volatile-secure
\* one a result; Unused for the others, which the loops pass over.
EndpointResults(eids, endpoints) ==
  { f \in [eids -> EndpointPairResults \cup {Unused}] :
      \A e \in eids :
        f[e] = Unused <=> (e \notin endpoints \/ e \in VolatileSecureEndpoints) }

\* The results start_key_exchange_with_remote may meet for a remote that
\* announces endpoints.
KeyExchangeResults(endpoints) ==
  LET remote_readers == { SECURE_BUILTIN_READERS_INIT_LIST[i][2] :
                     i \in 1..Len(SECURE_BUILTIN_READERS_INIT_LIST) }
      remote_writers == { SECURE_BUILTIN_WRITERS_INIT_LIST[i][1] :
                     i \in 1..Len(SECURE_BUILTIN_WRITERS_INIT_LIST) }
  IN [ register_participant : {"SecretErr", "RegisterErr"},
       register_volatile : {Unused}, participant : {Unused},
       readers : {[e \in remote_readers |-> Unused]},
       writers : {[e \in remote_writers |-> Unused]} ]
     \cup
     [ register_participant : {"Ok"},
       register_volatile : {"Ok", "ReaderErr", "WriterErr"},
       participant : {"Ok", "TokensErr", "WriteErr"},
       readers : EndpointResults(remote_readers, endpoints),
       writers : EndpointResults(remote_writers, endpoints) ]

\* ----------------------------------------------------------------- actions

NoInfo == [ none |-> TRUE ]

Commit(l, w, op, remote, info) ==
  /\ handshake_states' = [handshake_states EXCEPT ![l] = w.handshake_states]
  /\ stored_authentication_messages' =
       [stored_authentication_messages EXCEPT ![l] = w.stored_authentication_messages]
  /\ next_seqnum' = [next_seqnum EXCEPT ![l] = w.next_seqnum]
  /\ authentication_status' =
       [authentication_status EXCEPT ![l] = w.authentication_status]
  /\ participant_proxies' = [participant_proxies EXCEPT ![l] = w.participant_proxies]
  /\ discovery_updated' = [discovery_updated EXCEPT ![l] = w.discovery_updated]
  /\ last' = [ op |-> op, local |-> l, remote |-> remote, info |-> info,
               writes |-> w.writes, calls |-> w.calls,
               notified |-> SubSeq(w.discovery_updated,
                                   Len(discovery_updated[l]) + 1,
                                   Len(w.discovery_updated)) ]
  /\ UNCHANGED << local_dp_sec_attributes, available_builtin_endpoints >>
  /\ UNCHANGED outsideDiscoveryVars

\* Whether the tokens or the security info of SPDP data are missing or differ
\* from the local ones.
TokensMismatch(l, data) ==
  \/ data.identity_token # Some(local_dp_identity_token)
  \/ data.permissions_token # Some(local_dp_permissions_token)
  \/ data.security_info
       # Some(ParticipantSecurityInfo_from(local_dp_sec_attributes[l]))

\* Whether a message names as related something else than the identity of the
\* message stored for its sender, or no message is stored for the sender.
Unrelated(l, message) ==
  LET r == source_guid_prefix(message)
      stored == stored_authentication_messages[l]
  IN \/ r \notin DOMAIN stored
     \/ message.related_message_identity # stored[r].message.message_identity

\* Whether a message is a handshake message addressed to l.
Addressed(l, message) ==
  /\ message.destination_participant_guid = local_participant_guid(l)
  /\ message.message_class_id = GMCLASSID_SECURITY_AUTH_HANDSHAKE

StateOf(l, r) ==
  IF r \in DOMAIN handshake_states[l] THEN handshake_states[l][r] ELSE "None"

StatusOf(l, r) ==
  IF r \in DOMAIN authentication_status[l] THEN authentication_status[l][r] ELSE "None"

\* Discovery hands an SPDP sample of remote r to participant_read.
SpdpRead(l, r, data, p) ==
  LET res == participant_data_read(l, World(l), data, p)
  IN Commit(l, res.w, "participant_data_read", r,
            [ prior_status |-> StatusOf(l, r),
              prior_state |-> StateOf(l, r),
              mismatch |-> StatusOf(l, r) = "None" /\ TokensMismatch(l, data),
              p |-> p, permission |-> res.permission ])

\* Discovery hands a ParticipantStatelessMessage sample to SecureDiscovery.
StatelessRead(l, message, p) ==
  LET r == source_guid_prefix(message)
  IN Commit(l, participant_stateless_message_read(l, World(l), message, p),
            "participant_stateless_message_read", r,
            [ prior_status |-> StatusOf(l, r),
              prior_state |-> StateOf(l, r),
              addressed |-> Addressed(l, message),
              has_token |-> Addressed(l, message) /\ message.message_data # << >>,
              unrelated |-> Addressed(l, message) /\ Unrelated(l, message),
              p |-> p ])

\* The resend timer of Discovery fires.
ResendTick(l, write_ok) ==
  Commit(l, resend_unanswered_authentication_messages(World(l), write_ok),
         "resend_unanswered_authentication_messages", 0, NoInfo)

\* The event loop takes the ParticipantUpdated of remote r from the channel,
\* finds r Authenticated and has Discovery start the key exchange.
StartKeyExchange(l, r, k) ==
  Commit(l,
         start_key_exchange_with_remote(
           l, [World(l) EXCEPT !.discovery_updated = Tail(@)], r, k),
         "start_key_exchange_with_remote", r, [ k |-> k ])

\* ------------------------------------------------------------ specification

NoLast == [ op |-> "init", local |-> 0, remote |-> 0, info |-> NoInfo,
            writes |-> << >>, calls |-> {}, notified |-> << >> ]

DiscoveryNew(locals) ==
  /\ handshake_states = [l \in Participants |-> EmptyMap]
  /\ stored_authentication_messages = [l \in Participants |-> EmptyMap]
  /\ next_seqnum = [l \in Participants |-> 1]
  /\ local_dp_sec_attributes \in
       { f \in [Participants -> ParticipantSecurityAttributes] :
           \A q \in Participants \ locals :
             f[q] = [ allow_unauthenticated_participants |-> FALSE,
                      is_access_protected |-> FALSE ] }
  /\ authentication_status = [l \in Participants |-> EmptyMap]
  /\ participant_proxies = [l \in Participants |-> {}]
  /\ available_builtin_endpoints = [q \in Participants |-> SecureBuiltinEndpoints]
  /\ discovery_updated = [l \in Participants |-> << >>]
  /\ net = {}
  /\ last = NoLast

InitOf(locals) == OutsideDiscoveryNew /\ DiscoveryNew(locals)

Init == InitOf(SpecLocals)

\* Each handler is given every result its plugin calls and writes may have; an
\* input it does not read is Unused.
DoSpdpRead ==
  \E l \in SpecLocals : \E r \in RemotesOf(l) :
    \E data \in SpdpDiscoveredParticipantData(l, r) :
      LET validates == StatusOf(l, r) = "None" /\ ~TokensMismatch(l, data)
          retries == StatusOf(l, r) = "Authenticating"
                       /\ StateOf(l, r) = "PendingRequestSend"
      IN \E vri \in IF validates THEN ValidateRemoteIdentityResults ELSE {Unused} :
         \E bhreq \in IF vri = "PendingHandshakeRequest" \/ retries
                      THEN BeginHandshakeResults ELSE {Unused} :
         \E wok \in IF bhreq = "PendingHandshakeMessage" THEN BOOLEAN ELSE {TRUE} :
           /\ SpdpRead(l, r, data,
                       PluginResults(vri, bhreq, Unused, UnusedResult, Unused,
                                     Unused, wok))
           /\ UNCHANGED net

DoStatelessRead ==
  \E l \in SpecLocals : \E r \in RemotesOf(l) :
    \E message \in StatelessMessagesFrom(l, r) :
      LET state == IF Addressed(l, message) THEN StateOf(l, r) ELSE "None"
          has_token == message.message_data # << >>
          processes == /\ state \in {"PendingReplyMessage", "PendingFinalMessage"}
                       /\ ~Unrelated(l, message)
                       /\ has_token
      IN \E bhreq \in IF state = "PendingRequestSend"
                      THEN BeginHandshakeResults ELSE {Unused} :
         \E bhrep \in IF state = "PendingRequestMessage" /\ has_token
                      THEN BeginHandshakeResults ELSE {Unused} :
         \E ph \in IF processes THEN ProcessHandshakeResults ELSE {UnusedResult} :
           LET completes ==
                 /\ ~ph.err
                 /\ \/ /\ state = "PendingReplyMessage"
                       /\ ph.outcome = "OkFinalMessage" /\ ph.token # None
                    \/ /\ state = "PendingFinalMessage"
                       /\ ph.outcome = "Ok" /\ ph.token = None
           IN \E perm \in IF completes THEN {"Ok", "Err"} ELSE {Unused} :
              \E chk \in IF perm = "Ok" /\ local_dp_sec_attributes[l].is_access_protected
                         THEN {"Ok", "Err"} ELSE {Unused} :
              \E wok \in IF \/ bhreq = "PendingHandshakeMessage"
                            \/ bhrep = "PendingHandshakeMessage"
                            \/ (completes /\ state = "PendingReplyMessage")
                            \/ /\ state = "CompletedWithFinalMessageSent"
                               /\ r \in DOMAIN stored_authentication_messages[l]
                         THEN BOOLEAN ELSE {TRUE} :
                /\ StatelessRead(l, message,
                                 PluginResults(Unused, bhreq, bhrep, ph, perm, chk, wok))
                /\ UNCHANGED net

DoResendTick ==
  \E l \in SpecLocals : \E write_ok \in [RemotesOf(l) -> BOOLEAN] :
    ResendTick(l, write_ok) /\ UNCHANGED net

Next == DoSpdpRead \/ DoStatelessRead \/ DoResendTick

Spec == Init /\ [][Next]_vars

\* ================================================================== claims

\* The last handler was a stateless-message read that completed the handshake
\* with its sender: a valid reply was processed and the final message made, or
\* a valid final message was processed.
HandshakeJustCompleted ==
  /\ last.op = "participant_stateless_message_read"
  /\ \/ /\ last.info.prior_state = "PendingReplyMessage"
        /\ StateOf(last.local, last.remote) = "CompletedWithFinalMessageSent"
     \/ /\ last.info.prior_state = "PendingFinalMessage"
        /\ StateOf(last.local, last.remote) = "CompletedWithFinalMessageReceived"

\* The access-control checks of on_remote_participant_authenticated passed in
\* the last handler.
PermissionChecksPassed ==
  /\ last.remote \in participant_proxies[last.local]
  /\ last.info.p.validate_remote_permissions = "Ok"
  /\ local_dp_sec_attributes[last.local].is_access_protected
       => last.info.p.check_remote_participant = "Ok"

\* C1 as stated: whenever the final handshake exchange with a remote completes,
\* the remote's status becomes Authenticated and one ParticipantUpdated for it
\* is sent to the event loop.
C1_Original ==
  HandshakeJustCompleted =>
    /\ StatusOf(last.local, last.remote) = "Authenticated"
    /\ last.notified = << last.remote >>

\* C1 amended: when the final handshake exchange with a remote completes and the
\* remote's permissions validate (and check_remote_participant passes where
\* the domain is access protected), its status becomes Authenticated and one
\* ParticipantUpdated for it is sent; when one of these checks fails its status
\* becomes Rejected and no notification is sent.
C1_Authenticated ==
  HandshakeJustCompleted =>
    IF PermissionChecksPassed
    THEN /\ StatusOf(last.local, last.remote) = "Authenticated"
         /\ last.notified = << last.remote >>
    ELSE /\ StatusOf(last.local, last.remote) = "Rejected"
         /\ last.notified = << >>

C1_Witness ==
  /\ HandshakeJustCompleted
  /\ PermissionChecksPassed
  /\ StatusOf(last.local, last.remote) = "Authenticated"
  /\ last.info.prior_state = "PendingFinalMessage"

\* The sub-state of r at l after the step.
StateOfNext(l, r) ==
  IF r \in DOMAIN handshake_states'[l] THEN handshake_states'[l][r] ELSE "None"

\* The steps of the two handshake paths; a remote without sub-state enters a
\* path in start_authentication_with_remote, which sends the request at once
\* where it can.
HandshakePaths ==
  { << "None", "PendingRequestSend" >>,
    << "None", "PendingReplyMessage" >>,
    << "None", "PendingRequestMessage" >>,
    << "PendingRequestSend", "PendingReplyMessage" >>,
    << "PendingReplyMessage", "CompletedWithFinalMessageSent" >>,
    << "PendingRequestMessage", "PendingFinalMessage" >>,
    << "PendingFinalMessage", "CompletedWithFinalMessageReceived" >> }

\* C3: the handshake sub-state of a remote changes only by one step of the path
\* PendingRequestSend -> PendingReplyMessage -> CompletedWithFinalMessageSent
\* or of the path PendingRequestMessage -> PendingFinalMessage ->
\* CompletedWithFinalMessageReceived; it is first set when SPDP data of a
\* remote without authentication status is read, and a resend tick never
\* changes it.
C3_TwoPaths ==
  [][\A l \in Participants : \A r \in RemotesOf(l) :
       StateOf(l, r) # StateOfNext(l, r) =>
         /\ << StateOf(l, r), StateOfNext(l, r) >> \in HandshakePaths
         /\ last'.op # "resend_unanswered_authentication_messages"
         /\ StateOf(l, r) = "None" =>
              /\ last'.op = "participant_data_read"
              /\ last'.info.prior_status = "None"]_vars

C3_Witness ==
  /\ last.op = "participant_stateless_message_read"
  /\ last.info.prior_state = "PendingReplyMessage"
  /\ StateOf(last.local, last.remote) = "CompletedWithFinalMessageSent"
  /\ last.info.p.write_ok

\* The step is the read of a handshake message addressed to the local
\* participant that does not name the stored message of its sender, while the
\* sender's sub-state is one of states.
UnrelatedRead(states) ==
  /\ last'.op = "participant_stateless_message_read"
  /\ last'.info.addressed
  /\ last'.info.unrelated
  /\ last'.info.prior_state \in states

\* Nothing SecureDiscovery keeps about the remotes of l changes in the step.
HandshakeUnchanged(l) ==
  /\ handshake_states'[l] = handshake_states[l]
  /\ stored_authentication_messages'[l] = stored_authentication_messages[l]
  /\ authentication_status'[l] = authentication_status[l]
  /\ next_seqnum'[l] = next_seqnum[l]
  /\ discovery_updated'[l] = discovery_updated[l]
  /\ last'.calls = {}

\* C4 as stated: a reply or final message (a message of a peer we have sent a
\* request, a reply or the final message to) that does not name the message
\* last sent to that peer is dropped - sub-state, stored message, counter and
\* status unchanged, no plugin call, nothing sent.
C4_Original ==
  [][UnrelatedRead({"PendingReplyMessage", "PendingFinalMessage",
                    "CompletedWithFinalMessageSent",
                    "CompletedWithFinalMessageReceived"})
       => HandshakeUnchanged(last'.local) /\ last'.writes = << >>]_vars

\* C4 amended: such a message changes neither sub-state, stored message,
\* counter nor status and calls no plugin; nothing is sent while the sub-state
\* is PendingReplyMessage, PendingFinalMessage or
\* CompletedWithFinalMessageReceived, but in CompletedWithFinalMessageSent the
\* stored final message is written again, related or not.
C4_Dropped ==
  [][UnrelatedRead({"PendingReplyMessage", "PendingFinalMessage",
                    "CompletedWithFinalMessageSent",
                    "CompletedWithFinalMessageReceived"})
       => /\ HandshakeUnchanged(last'.local)
          /\ IF last'.info.prior_state = "CompletedWithFinalMessageSent"
             THEN /\ Len(last'.writes) = 1
                  /\ last'.writes[1].message =
                       stored_authentication_messages[last'.local][last'.remote]
                         .message
             ELSE last'.writes = << >>]_vars

C4_Witness ==
  /\ last.op = "participant_stateless_message_read"
  /\ last.info.addressed /\ last.info.unrelated /\ last.info.has_token
  /\ last.info.prior_state = "PendingReplyMessage"
  /\ last.remote \in DOMAIN stored_authentication_messages[last.local]

\* The step is a resend tick of l.
ResendTickOf(l) ==
  /\ last'.op = "resend_unanswered_authentication_messages"
  /\ last'.local = l

\* The remotes of l whose stored message a resend tick writes.
DueForResend(l) ==
  { r \in DOMAIN stored_authentication_messages[l] :
      StateOf(l, r) # "CompletedWithFinalMessageSent" }

\* C5 as stated: every handshake message that was sent and is retained is
\* written again on each resend tick.
C5_Original ==
  [][\A l \in Participants :
       ResendTickOf(l) =>
         \A r \in DOMAIN stored_authentication_messages[l] :
           \E i \in 1..Len(last'.writes) :
             last'.writes[i].message =
               stored_authentication_messages[l][r].message]_vars

\* C5 amended: a resend tick writes once every stored message except those of
\* remotes in CompletedWithFinalMessageSent, which it neither writes, counts nor
\* discards; a write that succeeds takes one off the counter, a write that
\* fails takes nothing; a message whose counter reaches 0 is discarded, so a
\* counter is always between 1 and 10; a related message that process_handshake
\* fails on sets the counter back to 10, so only the resends since the last
\* such message are at most 10.
C5_Resend ==
  [][\A l \in Participants :
       LET stored == stored_authentication_messages[l] IN
       /\ ResendTickOf(l) =>
            /\ Len(last'.writes) = Cardinality(DueForResend(l))
            /\ DOMAIN stored_authentication_messages'[l] \subseteq DOMAIN stored
            /\ \A r \in DueForResend(l) :
                 \E i \in 1..Len(last'.writes) :
                   LET left == stored[r].remaining_resend_counter
                                 - (IF last'.writes[i].ok THEN 1 ELSE 0)
                   IN /\ last'.writes[i].message = stored[r].message
                      /\ IF left = 0
                         THEN r \notin DOMAIN stored_authentication_messages'[l]
                         ELSE /\ r \in DOMAIN stored_authentication_messages'[l]
                              /\ stored_authentication_messages'[l][r] =
                                   [stored[r] EXCEPT !.remaining_resend_counter = left]
            /\ \A r \in (DOMAIN stored) \ DueForResend(l) :
                 /\ r \in DOMAIN stored_authentication_messages'[l]
                 /\ stored_authentication_messages'[l][r] = stored[r]
       /\ \A r \in DOMAIN stored_authentication_messages'[l] :
            stored_authentication_messages'[l][r].remaining_resend_counter
              \in 1..STORED_AUTH_MESSAGE_MAX_RESEND_COUNT
       /\ ( /\ last'.op = "participant_stateless_message_read"
            /\ last'.local = l
            /\ "process_handshake" \in last'.calls
            /\ last'.info.p.process_handshake.err )
          => /\ last'.remote \in DOMAIN stored
             /\ stored_authentication_messages'[l] =
                  [stored EXCEPT ![last'.remote].remaining_resend_counter =
                                   STORED_AUTH_MESSAGE_MAX_RESEND_COUNT]]_vars

\* The tenth successful resend of a request has just discarded it.
C5_Witness ==
  /\ last.op = "resend_unanswered_authentication_messages"
  /\ Len(last.writes) = 1
  /\ last.writes[1].ok
  /\ last.writes[1].message.message_data = << "request" >>
  /\ stored_authentication_messages[last.local] = EmptyMap
  /\ \E r \in DOMAIN handshake_states[last.local] :
       handshake_states[last.local][r] = "PendingReplyMessage"

\* The last handler read SPDP data, with tokens or security info missing or
\* not matching, of a remote without authentication status.
IncompatibleSpdpRead ==
  /\ last.op = "participant_data_read"
  /\ last.info.prior_status = "None"
  /\ last.info.mismatch

\* C6: SPDP data with a missing or not matching identity token, permissions
\* token or security info, from a remote without authentication status, sets
\* the status to Unauthenticated if allow_unauthenticated_participants and to
\* Rejected otherwise; no sub-state is made, nothing is stored or sent, no
\* plugin is called.
C6_Incompatible ==
  IncompatibleSpdpRead =>
    /\ StatusOf(last.local, last.remote) =
         IF local_dp_sec_attributes[last.local].allow_unauthenticated_participants
         THEN "Unauthenticated"
         ELSE "Rejected"
    /\ StateOf(last.local, last.remote) = "None"
    /\ last.remote \notin DOMAIN stored_authentication_messages[last.local]
    /\ last.writes = << >>
    /\ last.notified = << >>
    /\ "validate_remote_identity" \notin last.calls
    /\ last.calls = {}

C6_Witness ==
  /\ IncompatibleSpdpRead
  /\ StatusOf(last.local, last.remote) = "Unauthenticated"
  /\ last.info.permission = "Allow"

\* The last handler read compatible SPDP data of a remote without
\* authentication status, and validate_remote_identity gave no error.
IdentityValidated ==
  /\ last.op = "participant_data_read"
  /\ last.info.prior_status = "None"
  /\ ~last.info.mismatch
  /\ last.info.p.validate_remote_identity # "Err"

\* The request of the last handler: made, stored with a full counter, and
\* handed to the writer once, with result ok.
RequestStoredAndWritten(ok) ==
  LET l == last.local
      r == last.remote
      stored == stored_authentication_messages[l]
  IN /\ r \in DOMAIN stored
     /\ stored[r].remaining_resend_counter = STORED_AUTH_MESSAGE_MAX_RESEND_COUNT
     /\ stored[r].message.message_data = << "request" >>
     /\ stored[r].message.destination_participant_guid = local_participant_guid(r)
     /\ last.writes = << [ message |-> stored[r].message, ok |-> ok ] >>

\* C7 as stated: after validate_remote_identity passed, the remote is in
\* DiscoveryDB with status Authenticating and one ParticipantUpdated was sent;
\* on PendingHandshakeRequest the request was created, stored and sent and the
\* sub-state is PendingReplyMessage, or it is PendingRequestSend if the request
\* could not be created; on PendingHandshakeMessage nothing was sent and the
\* sub-state is PendingRequestMessage.
C7_Original ==
  IdentityValidated =>
    /\ last.remote \in participant_proxies[last.local]
    /\ StatusOf(last.local, last.remote) = "Authenticating"
    /\ last.notified = << last.remote >>
    /\ last.info.p.validate_remote_identity = "PendingHandshakeRequest" =>
         IF last.info.p.begin_handshake_request = "PendingHandshakeMessage"
         THEN /\ StateOf(last.local, last.remote) = "PendingReplyMessage"
              /\ RequestStoredAndWritten(TRUE)
         ELSE StateOf(last.local, last.remote) = "PendingRequestSend"
    /\ last.info.p.validate_remote_identity = "PendingHandshakeMessage" =>
         /\ StateOf(last.local, last.remote) = "PendingRequestMessage"
         /\ last.writes = << >>

\* C7 amended: after validate_remote_identity passed, the remote is in
\* DiscoveryDB and one ParticipantUpdated was sent.  On PendingHandshakeRequest
\* the status is Authenticating; a request that could be created is stored and
\* handed to the writer once, and the sub-state is PendingReplyMessage whether
\* or not that write succeeded; if it could not be created the sub-state stays
\* PendingRequestSend with nothing stored or written.  On
\* PendingHandshakeMessage the status is Authenticating, the sub-state
\* PendingRequestMessage and nothing is stored or written.  On any other
\* outcome the status ends as Rejected, with no sub-state and nothing written.
C7_Validated ==
  IdentityValidated =>
    LET l == last.local
        r == last.remote
        outcome == last.info.p.validate_remote_identity
    IN /\ r \in participant_proxies[l]
       /\ last.notified = << r >>
       /\ CASE outcome = "PendingHandshakeRequest" ->
                 /\ StatusOf(l, r) = "Authenticating"
                 /\ IF last.info.p.begin_handshake_request = "PendingHandshakeMessage"
                    THEN /\ StateOf(l, r) = "PendingReplyMessage"
                         /\ RequestStoredAndWritten(last.info.p.write_ok)
                    ELSE /\ StateOf(l, r) = "PendingRequestSend"
                         /\ r \notin DOMAIN stored_authentication_messages[l]
                         /\ last.writes = << >>
            [] outcome = "PendingHandshakeMessage" ->
                 /\ StatusOf(l, r) = "Authenticating"
                 /\ StateOf(l, r) = "PendingRequestMessage"
                 /\ r \notin DOMAIN stored_authentication_messages[l]
                 /\ last.writes = << >>
            [] OTHER ->
                 /\ StatusOf(l, r) = "Rejected"
                 /\ StateOf(l, r) = "None"
                 /\ last.writes = << >>

C7_Witness ==
  /\ IdentityValidated
  /\ last.info.p.validate_remote_identity = "PendingHandshakeRequest"
  /\ StateOf(last.local, last.remote) = "PendingReplyMessage"
  /\ RequestStoredAndWritten(TRUE)
  /\ last.notified = << last.remote >>

\* Failures of the last handler, by the plugin call that failed.
IdentityValidationFailed ==
  /\ "validate_remote_identity" \in last.calls
  /\ last.info.p.validate_remote_identity = "Err"

HandshakeTokenRejected ==
  \/ /\ "begin_handshake_reply" \in last.calls
     /\ last.info.p.begin_handshake_reply = "Err"
  \/ /\ "process_handshake" \in last.calls
     /\ last.info.p.process_handshake.err

PermissionChecksFailed ==
  \/ last.info.p.validate_remote_permissions = "Err"
  \/ last.info.p.check_remote_participant = "Err"

PluginHandler ==
  last.op \in {"participant_data_read", "participant_stateless_message_read"}

\* C8 as stated: after a failed validate_remote_identity, a token rejected by
\* begin_handshake_reply or process_handshake, a failed validation of the
\* permissions or a failed check_remote_participant, the remote is Rejected.
C8_Original ==
  ( /\ PluginHandler
    /\ IdentityValidationFailed \/ HandshakeTokenRejected \/ PermissionChecksFailed )
  => StatusOf(last.local, last.remote) = "Rejected"

\* C8 amended: a failed validation of the permissions or a failed
\* check_remote_participant makes the remote Rejected; a failed
\* validate_remote_identity makes it Rejected only if
\* allow_unauthenticated_participants is false, and Unauthenticated otherwise;
\* a token rejected by begin_handshake_reply or process_handshake leaves status
\* Authenticating and the sub-state as they were.  After each of them the
\* handler has returned and the next one can run.
C8_Failures ==
  PluginHandler =>
    LET l == last.local
        r == last.remote
    IN /\ IdentityValidationFailed =>
            /\ StatusOf(l, r) =
                 IF local_dp_sec_attributes[l].allow_unauthenticated_participants
                 THEN "Unauthenticated"
                 ELSE "Rejected"
            /\ StateOf(l, r) = "None"
       /\ HandshakeTokenRejected =>
            /\ StatusOf(l, r) = "Authenticating"
            /\ StateOf(l, r) = last.info.prior_state
       /\ PermissionChecksFailed => StatusOf(l, r) = "Rejected"
       /\ ( IdentityValidationFailed \/ HandshakeTokenRejected
              \/ PermissionChecksFailed ) => ENABLED Next

C8_Witness ==
  /\ PluginHandler
  /\ "check_remote_participant" \in last.calls
  /\ last.info.p.check_remote_participant = "Err"
  /\ StatusOf(last.local, last.remote) = "Rejected"

\* ------------------------------------------------- key exchange specification

\* A remote that has just been authenticated by its final message, the
\* notification of which is still in the channel; it announces the
\* volatile-secure endpoints and any of the other secure built-in endpoints.
KeyExchangeInit ==
  /\ OutsideDiscoveryNew
  /\ handshake_states =
       [l \in Participants |->
          IF l \in SpecLocals
          THEN [r \in RemotesOf(l) |-> "CompletedWithFinalMessageReceived"]
          ELSE EmptyMap]
  /\ stored_authentication_messages = [l \in Participants |-> EmptyMap]
  /\ next_seqnum = [l \in Participants |-> IF l \in SpecLocals THEN 2 ELSE 1]
  /\ local_dp_sec_attributes \in
       { f \in [Participants -> ParticipantSecurityAttributes] :
           \A q \in Participants \ SpecLocals :
             f[q] = [ allow_unauthenticated_participants |-> FALSE,
                      is_access_protected |-> FALSE ] }
  /\ authentication_status =
       [l \in Participants |->
          IF l \in SpecLocals
          THEN [r \in RemotesOf(l) |-> "Authenticated"]
          ELSE EmptyMap]
  /\ participant_proxies =
       [l \in Participants |-> IF l \in SpecLocals THEN RemotesOf(l) ELSE {}]
  /\ available_builtin_endpoints \in
       [Participants ->
          { VolatileSecureEndpoints \cup others :
              others \in SUBSET (SecureBuiltinEndpoints \ VolatileSecureEndpoints) }]
  /\ \A l \in SpecLocals :
       available_builtin_endpoints[l] = SecureBuiltinEndpoints
  /\ discovery_updated =
       [l \in Participants |->
          IF l \in SpecLocals
          THEN << CHOOSE r \in RemotesOf(l) : TRUE >>
          ELSE << >>]
  /\ net = {}
  /\ last = NoLast

DoStartKeyExchange ==
  \E l \in SpecLocals : \E r \in RemotesOf(l) :
    /\ discovery_updated[l] # << >>
    /\ Head(discovery_updated[l]) = r
    /\ StatusOf(l, r) = "Authenticated"
    /\ \E k \in KeyExchangeResults(available_builtin_endpoints[r]) :
         StartKeyExchange(l, r, k)
    /\ UNCHANGED net

KeyExchangeNext == DoStartKeyExchange

KeyExchangeSpec == KeyExchangeInit /\ [][KeyExchangeNext]_vars

\* The last handler was start_key_exchange_with_remote.
KeyExchangeRan == last.op = "start_key_exchange_with_remote"

\* It got the remote participant and the remote volatile-secure reader and
\* writer registered with the crypto plugin.
VolatileRegistered ==
  /\ KeyExchangeRan
  /\ last.info.k.register_participant = "Ok"
  /\ last.info.k.register_volatile = "Ok"

\* The entries of the two lists whose remote endpoint the remote announces,
\* the volatile-secure pair apart.
ReaderPairs ==
  { i \in 1..Len(SECURE_BUILTIN_READERS_INIT_LIST) :
      /\ SECURE_BUILTIN_READERS_INIT_LIST[i][3]
           \in available_builtin_endpoints[last.remote]
      /\ SECURE_BUILTIN_READERS_INIT_LIST[i][2]
           # P2P_BUILTIN_PARTICIPANT_VOLATILE_SECURE_READER }

WriterPairs ==
  { i \in 1..Len(SECURE_BUILTIN_WRITERS_INIT_LIST) :
      /\ SECURE_BUILTIN_WRITERS_INIT_LIST[i][3]
           \in available_builtin_endpoints[last.remote]
      /\ SECURE_BUILTIN_WRITERS_INIT_LIST[i][1]
           # P2P_BUILTIN_PARTICIPANT_VOLATILE_SECURE_WRITER }

\* The places in the last handler's writes of the messages that were sent
\* (the write succeeded) with a class, a source and a destination endpoint.
SentTokens(class, source, destination) ==
  { j \in 1..Len(last.writes) :
      /\ last.writes[j].ok
      /\ last.writes[j].message.message_class_id = class
      /\ last.writes[j].message.source_endpoint_guid = source
      /\ last.writes[j].message.destination_endpoint_guid = destination }

SentParticipantTokens ==
  SentTokens(GMCLASSID_SECURITY_PARTICIPANT_CRYPTO_TOKENS, GUID_UNKNOWN,
             GUID_UNKNOWN)

\* DATAWRITER_CRYPTO_TOKENS of entry i: local writer to remote reader.
SentWriterTokens(i) ==
  SentTokens(GMCLASSID_SECURITY_DATAWRITER_CRYPTO_TOKENS,
             GUID(last.local, SECURE_BUILTIN_READERS_INIT_LIST[i][1]),
             GUID(last.remote, SECURE_BUILTIN_READERS_INIT_LIST[i][2]))

\* DATAREADER_CRYPTO_TOKENS of entry i: local reader to remote writer.
SentReaderTokens(i) ==
  SentTokens(GMCLASSID_SECURITY_DATAREADER_CRYPTO_TOKENS,
             GUID(last.local, SECURE_BUILTIN_WRITERS_INIT_LIST[i][2]),
             GUID(last.remote, SECURE_BUILTIN_WRITERS_INIT_LIST[i][1]))

ReaderResult(i) == last.info.k.readers[SECURE_BUILTIN_READERS_INIT_LIST[i][2]]
WriterResult(i) == last.info.k.writers[SECURE_BUILTIN_WRITERS_INIT_LIST[i][1]]

\* Every message handed to the volatile writer is for the remote and goes to
\* its one volatile-secure reader; the participant's tokens come first, the
\* writers' tokens before the readers'.
AddressedAndOrdered ==
  /\ \A j \in 1..Len(last.writes) :
       /\ last.writes[j].to_single_reader =
            GUID(last.remote, P2P_BUILTIN_PARTICIPANT_VOLATILE_SECURE_READER)
       /\ last.writes[j].message.destination_participant_guid =
            local_participant_guid(last.remote)
       /\ last.writes[j].message.message_identity.writer_guid =
            GUID(last.local, P2P_BUILTIN_PARTICIPANT_VOLATILE_SECURE_WRITER)
  /\ \A i, j \in 1..Len(last.writes) :
       LET rank(c) ==
             CASE c = GMCLASSID_SECURITY_PARTICIPANT_CRYPTO_TOKENS -> 1
               [] c = GMCLASSID_SECURITY_DATAWRITER_CRYPTO_TOKENS -> 2
               [] c = GMCLASSID_SECURITY_DATAREADER_CRYPTO_TOKENS -> 3
       IN i < j => rank(last.writes[i].message.message_class_id)
                     <= rank(last.writes[j].message.message_class_id)

\* C9 as stated: once the remote participant and its volatile-secure reader
\* and writer are registered, exactly one PARTICIPANT_CRYPTO_TOKENS message is
\* sent, then one DATAWRITER_CRYPTO_TOKENS message for each remote secure
\* built-in reader and one DATAREADER_CRYPTO_TOKENS message for each remote
\* secure built-in writer, all to the remote's volatile-secure reader.
C9_Original ==
  VolatileRegistered =>
    /\ Cardinality(SentParticipantTokens) = 1
    /\ \A i \in ReaderPairs : Cardinality(SentWriterTokens(i)) = 1
    /\ \A i \in WriterPairs : Cardinality(SentReaderTokens(i)) = 1
    /\ AddressedAndOrdered

\* C9 amended: once the remote participant and its volatile-secure reader and
\* writer are registered, one PARTICIPANT_CRYPTO_TOKENS message is sent if its
\* tokens can be created and written, then one DATAWRITER_CRYPTO_TOKENS message
\* for each secure built-in reader the remote announces, the volatile-secure
\* one apart, and one DATAREADER_CRYPTO_TOKENS message for each such remote
\* writer, in each case if that endpoint can be registered and the tokens
\* created and written, and none otherwise; nothing else is sent, and all
\* goes to the remote's volatile-secure reader.
C9_KeyExchange ==
  VolatileRegistered =>
    /\ Cardinality(SentParticipantTokens) =
         IF last.info.k.participant = "Ok" THEN 1 ELSE 0
    /\ \A i \in 1..Len(SECURE_BUILTIN_READERS_INIT_LIST) :
         Cardinality(SentWriterTokens(i)) =
           IF i \in ReaderPairs /\ ReaderResult(i) = "Ok" THEN 1 ELSE 0
    /\ \A i \in 1..Len(SECURE_BUILTIN_WRITERS_INIT_LIST) :
         Cardinality(SentReaderTokens(i)) =
           IF i \in WriterPairs /\ WriterResult(i) = "Ok" THEN 1 ELSE 0
    /\ Cardinality({ j \in 1..Len(last.writes) : last.writes[j].ok }) =
         Cardinality(SentParticipantTokens)
           + Cardinality({ i \in ReaderPairs : ReaderResult(i) = "Ok" })
           + Cardinality({ i \in WriterPairs : WriterResult(i) = "Ok" })
    /\ AddressedAndOrdered

\* All pairs announced, nothing fails: five messages.
C9_Witness ==
  /\ VolatileRegistered
  /\ Cardinality(ReaderPairs) = 2 /\ Cardinality(WriterPairs) = 2
  /\ Len(last.writes) = 5
  /\ \A j \in 1..Len(last.writes) : last.writes[j].ok
  /\ last.writes[1].message.message_class_id =
       GMCLASSID_SECURITY_PARTICIPANT_CRYPTO_TOKENS

\* What is sent although some endpoint pair fails: the participant's tokens
\* and the tokens of each pair that does not fail itself.
OtherTokensSent ==
  /\ last.info.k.participant = "Ok" => SentParticipantTokens # {}
  /\ \A i \in ReaderPairs : ReaderResult(i) = "Ok" => SentWriterTokens(i) # {}
  /\ \A i \in WriterPairs : WriterResult(i) = "Ok" => SentReaderTokens(i) # {}

\* C10 as stated: when the remote participant is registered, a failure of one
\* endpoint pair - registering the remote endpoint, creating the tokens or
\* writing them - leaves the participant's tokens and the tokens of every
\* other pair being sent.
C10_Original ==
  (KeyExchangeRan /\ last.info.k.register_participant = "Ok") => OtherTokensSent

\* C10 amended: that holds for the pairs the loops go through; a failure to
\* register the remote volatile-secure reader or writer ends the function
\* with nothing sent at all, and the tokens of a pair that fails are not sent.
C10_PairFailures ==
  (KeyExchangeRan /\ last.info.k.register_participant = "Ok") =>
    IF last.info.k.register_volatile = "Ok"
    THEN /\ OtherTokensSent
         /\ \A i \in ReaderPairs : ReaderResult(i) # "Ok" => SentWriterTokens(i) = {}
         /\ \A i \in WriterPairs : WriterResult(i) # "Ok" => SentReaderTokens(i) = {}
    ELSE last.writes = << >>

\* The first remote reader cannot be registered; the second one's tokens and
\* a remote writer's tokens are sent all the same.
C10_Witness ==
  /\ VolatileRegistered
  /\ Cardinality(ReaderPairs) = 2 /\ Cardinality(WriterPairs) = 2
  /\ \E i, j \in ReaderPairs :
       /\ i < j
       /\ ReaderResult(i) = "RegisterErr"
       /\ SentWriterTokens(j) # {}
  /\ \E i \in WriterPairs : WriterResult(i) = "TokensErr"
  /\ \E i \in WriterPairs : SentReaderTokens(i) # {}
  /\ SentParticipantTokens # {}

\* ---------------------------------------------------- handshake specification

\* Two participants that both run SecureDiscovery with the same security
\* attributes, so that each finds the other's SPDP data compatible; the
\* plugins accept every genuine token, every write succeeds and every sample
\* written is delivered.

\* The built-in authentication plugin has the participant with the lower GUID
\* send the handshake request.
BuiltinValidateRemoteIdentity(l, r) ==
  IF l < r THEN "PendingHandshakeRequest" ELSE "PendingHandshakeMessage"

\* The built-in plugin's answer to the token of a message received in a
\* sub-state: a reply token for a request, the final token for a reply,
\* acceptance of the final token, an error for anything else.
BuiltinProcessHandshake(state, token) ==
  CASE state = "PendingReplyMessage" /\ token = Some("reply") ->
         [ err |-> FALSE, outcome |-> "OkFinalMessage", token |-> Some("final") ]
    [] state = "PendingFinalMessage" /\ token = Some("final") ->
         [ err |-> FALSE, outcome |-> "Ok", token |-> None ]
    [] OTHER -> [ err |-> TRUE, outcome |-> "Failed", token |-> None ]

BuiltinPluginResults(l, r, state, token) ==
  PluginResults(BuiltinValidateRemoteIdentity(l, r),
                "PendingHandshakeMessage",
                IF token = Some("request") THEN "PendingHandshakeMessage" ELSE "Err",
                BuiltinProcessHandshake(state, token),
                "Ok", "Ok", TRUE)

\* The samples the last handler wrote become samples in flight.
Written == { last'.writes[i].message : i \in 1..Len(last'.writes) }

HandshakeInit ==
  /\ InitOf(Participants)
  /\ \A l, r \in Participants :
       local_dp_sec_attributes[l] = local_dp_sec_attributes[r]

\* Participant l reads the SPDP data of the other participant.
HsSpdpRead(l) ==
  \E r \in RemotesOf(l) :
    /\ SpdpRead(l, r, CompatibleData(l, r),
                BuiltinPluginResults(l, r, StateOf(l, r), None))
    /\ net' = net \cup Written

\* A sample in flight reaches participant l.
HsDeliver(l) ==
  \E message \in net :
    /\ message.destination_participant_guid = local_participant_guid(l)
    /\ StatelessRead(l, message,
                     BuiltinPluginResults(
                       l, source_guid_prefix(message),
                       StateOf(l, source_guid_prefix(message)),
                       get_handshake_token_from_stateless_message(message)))
    /\ net' = (net \ {message}) \cup Written

\* The resend timer of participant l fires.
HsResendTick(l) ==
  /\ ResendTick(l, [r \in RemotesOf(l) |-> TRUE])
  /\ net' = net \cup Written

DoHsSpdpRead == \E l \in Participants : HsSpdpRead(l)

DoHsDeliver == \E l \in Participants : HsDeliver(l)

DoHsResendTick == \E l \in Participants : HsResendTick(l)

HandshakeNext == DoHsSpdpRead \/ DoHsDeliver \/ DoHsResendTick

\* Both discovery threads keep running: each keeps reading SPDP data and
\* the samples that reach it, and its resend timer keeps firing.
HandshakeFairness ==
  \A l \in Participants :
    /\ WF_vars(HsSpdpRead(l))
    /\ WF_vars(HsDeliver(l))
    /\ WF_vars(HsResendTick(l))

HandshakeSpec == HandshakeInit /\ [][HandshakeNext]_vars /\ HandshakeFairness

BothAuthenticated ==
  \A l \in Participants : \A r \in RemotesOf(l) :
    StatusOf(l, r) = "Authenticated"

\* The last resend tick discarded a message it had re-sent for the tenth time.
GaveUpResending ==
  /\ last.op = "resend_unanswered_authentication_messages"
  /\ \E i \in 1..Len(last.writes) :
       source_guid_prefix(last.writes[i].message) = last.local
       /\ \A r \in DOMAIN stored_authentication_messages[last.local] :
            stored_authentication_messages[last.local][r].message
              # last.writes[i].message

\* C2 as stated: two compatible participants with valid identities and
\* permissions, whose samples are delivered and whose discovery threads keep
\* running, eventually record each other as Authenticated.
C2_Original == <>BothAuthenticated

\* C2 amended: they eventually record each other as Authenticated unless a
\* participant re-sends a handshake message ten times without an answer and
\* gives it up, as the initiator does with its request when the responder
\* reads the initiator's SPDP data too late; after that the handshake stands
\* still.
C2_Handshake == <>(BothAuthenticated \/ GaveUpResending)

C2_Witness ==
  /\ BothAuthenticated
  /\ StateOf(1, 2) = "CompletedWithFinalMessageSent"
  /\ StateOf(2, 1) = "CompletedWithFinalMessageReceived"
  /\ last.op = "participant_stateless_message_read"
  /\ last.local = 2

\* ------------------------------------------ DP event loop: update_participant

\* Built-in endpoints of the standard discovery and of the authentication
\* handshake: for each topic the local writer, the remote reader it matches
\* and the flag by which a remote announces that reader.
STANDARD_BUILTIN_READERS_INIT_LIST ==
  << << "SPDP_BUILTIN_PARTICIPANT_WRITER", "SPDP_BUILTIN_PARTICIPANT_READER",
        "PARTICIPANT_DETECTOR" >>,
     << "PUBLICATIONS_WRITER", "PUBLICATIONS_READER", "PUBLICATIONS_DETECTOR" >>,
     << "PARTICIPANT_MESSAGE_WRITER", "PARTICIPANT_MESSAGE_READER",
        "PARTICIPANT_MESSAGE_DATA_READER" >> >>

STANDARD_BUILTIN_WRITERS_INIT_LIST ==
  << << "SPDP_BUILTIN_PARTICIPANT_WRITER", "SPDP_BUILTIN_PARTICIPANT_READER",
        "PARTICIPANT_ANNOUNCER" >>,
     << "PUBLICATIONS_WRITER", "PUBLICATIONS_READER", "PUBLICATIONS_ANNOUNCER" >>,
     << "PARTICIPANT_MESSAGE_WRITER", "PARTICIPANT_MESSAGE_READER",
        "PARTICIPANT_MESSAGE_DATA_WRITER" >> >>

AUTHENTICATION_BUILTIN_READERS_INIT_LIST ==
  << << "PARTICIPANT_STATELESS_WRITER", "PARTICIPANT_STATELESS_READER",
        "PARTICIPANT_STATELESS_MESSAGE_READER" >> >>

AUTHENTICATION_BUILTIN_WRITERS_INIT_LIST ==
  << << "PARTICIPANT_STATELESS_WRITER", "PARTICIPANT_STATELESS_READER",
        "PARTICIPANT_STATELESS_MESSAGE_WRITER" >> >>

\* A variant that takes the secure lists for a remote still authenticating.
builtin_endpoint_init_lists_early(status) ==
  CASE status \in {"Authenticating", "Authenticated"} ->
         << AUTHENTICATION_BUILTIN_READERS_INIT_LIST \o SECURE_BUILTIN_READERS_INIT_LIST,
            AUTHENTICATION_BUILTIN_WRITERS_INIT_LIST \o SECURE_BUILTIN_WRITERS_INIT_LIST >>
    [] OTHER -> << << >>, << >> >>

\* update_participant with security enabled: the init lists chosen by the
\* authentication status DiscoveryDB has for the remote.
builtin_endpoint_init_lists(status) ==
  CASE status = "Authenticating" ->
         << AUTHENTICATION_BUILTIN_READERS_INIT_LIST,
            AUTHENTICATION_BUILTIN_WRITERS_INIT_LIST >>
    [] status = "Authenticated" ->
         << STANDARD_BUILTIN_READERS_INIT_LIST \o SECURE_BUILTIN_READERS_INIT_LIST,
            STANDARD_BUILTIN_WRITERS_INIT_LIST \o SECURE_BUILTIN_WRITERS_INIT_LIST >>
    [] status = "Unauthenticated" ->
         << STANDARD_BUILTIN_READERS_INIT_LIST, STANDARD_BUILTIN_WRITERS_INIT_LIST >>
    [] OTHER -> << << >>, << >> >>

\* The event loop of one participant, as the record update_participant
\* transforms.
EventLoop(l) ==
  [ writers |-> writers[l],
    available_readers |-> available_readers[l],
    discovery_command |-> discovery_command[l] ]

\* Writer::update_reader_proxy
update_reader_proxy(writer, remote_reader_guid) ==
  [writer EXCEPT !.readers = @ \cup {remote_reader_guid}]

\* Reader::update_writer_proxy
update_writer_proxy(reader, remote_writer_guid) ==
  [reader EXCEPT !.matched_writers = @ \cup {remote_writer_guid}]

RECURSIVE update_local_writers(_, _, _, _, _)
\* The loop "Update local writers" from entry i of readers_init_list on.
update_local_writers(el, remote, endpoints, readers_init_list, i) ==
  IF i > Len(readers_init_list) THEN el
  ELSE LET writer_eid == readers_init_list[i][1]
           reader_eid == readers_init_list[i][2]
           endpoint == readers_init_list[i][3]
           remote_reader_guid ==
             IF writer_eid = "SPDP_BUILTIN_PARTICIPANT_WRITER"
             THEN GUID(0, "SPDP_BUILTIN_PARTICIPANT_READER")
             ELSE GUID(remote, reader_eid)
           done ==
             IF writer_eid \in DOMAIN el.writers /\ endpoint \in endpoints
             THEN [el EXCEPT !.writers[writer_eid] =
                     update_reader_proxy(@, remote_reader_guid)]
             ELSE el
       IN update_local_writers(done, remote, endpoints, readers_init_list, i + 1)

RECURSIVE update_local_readers(_, _, _, _, _)
\* The loop "update local readers" from entry i of writers_init_list on.
update_local_readers(el, remote, endpoints, writers_init_list, i) ==
  IF i > Len(writers_init_list) THEN el
  ELSE LET writer_eid == writers_init_list[i][1]
           reader_eid == writers_init_list[i][2]
           endpoint == writers_init_list[i][3]
           done ==
             IF reader_eid \in DOMAIN el.available_readers /\ endpoint \in endpoints
             THEN [el EXCEPT !.available_readers[reader_eid] =
                     update_writer_proxy(@, GUID(remote, writer_eid))]
             ELSE el
       IN update_local_readers(done, remote, endpoints, writers_init_list, i + 1)

\* DPEventLoop::update_participant, security enabled.
update_participant(l, el, participant_guid_prefix) ==
  LET discovered_participant ==
        find_participant_proxy(World(l), participant_guid_prefix)
      status == StatusOf(l, participant_guid_prefix)
      lists == builtin_endpoint_init_lists(status)
  IN IF discovered_participant = None THEN el
     ELSE LET endpoints == Unwrap(discovered_participant)
              el1 == update_local_writers(el, participant_guid_prefix, endpoints,
                                          lists[1], 1)
              el2 == update_local_readers(el1, participant_guid_prefix, endpoints,
                                          lists[2], 1)
          IN IF status = "Authenticated"
             THEN [el2 EXCEPT !.discovery_command =
                     Append(@, [ command |-> "StartKeyExchangeWithRemoteParticipant",
                                 participant_guid_prefix |-> participant_guid_prefix ])]
             ELSE el2

\* The reader proxies (of writers) and writer proxies (of readers) that are in
\* event loop b and not in a, each with the local endpoint that has it.
ProxiesAdded(a, b) ==
  { << e, g >> \in UNION { {e} \X b.writers[e].readers : e \in DOMAIN b.writers } :
      e \notin DOMAIN a.writers \/ g \notin a.writers[e].readers }
  \cup
  { << e, g >> \in UNION { {e} \X b.available_readers[e].matched_writers :
                             e \in DOMAIN b.available_readers } :
      e \notin DOMAIN a.available_readers
        \/ g \notin a.available_readers[e].matched_writers }

\* The event loop takes a ParticipantUpdated from the notification channel.
UpdateParticipant(l) ==
  /\ discovery_updated[l] # << >>
  /\ LET guid_prefix == Head(discovery_updated[l])
         el == update_participant(l, EventLoop(l), guid_prefix)
     IN /\ writers' = [writers EXCEPT ![l] = el.writers]
        /\ available_readers' = [available_readers EXCEPT ![l] = el.available_readers]
        /\ discovery_command' = [discovery_command EXCEPT ![l] = el.discovery_command]
        /\ discovery_updated' = [discovery_updated EXCEPT ![l] = Tail(@)]
        /\ last' = [ op |-> "update_participant", local |-> l, remote |-> guid_prefix,
                     info |-> [ status |-> StatusOf(l, guid_prefix),
                                in_db |-> guid_prefix \in participant_proxies[l],
                                added |-> ProxiesAdded(EventLoop(l), el) ],
                     writes |-> << >>, calls |-> {}, notified |-> << >> ]
  /\ UNCHANGED << handshake_states, stored_authentication_messages, next_seqnum,
                  local_dp_sec_attributes, authentication_status,
                  participant_proxies, available_builtin_endpoints, net >>
  /\ UNCHANGED << reactorVars, restVars >>

\* All flags a participant can announce for its built-in endpoints.
BuiltinEndpoints ==
  LET Flags(list) == { list[i][3] : i \in 1..Len(list) }
  IN Flags(STANDARD_BUILTIN_READERS_INIT_LIST) \cup Flags(STANDARD_BUILTIN_WRITERS_INIT_LIST)
     \cup Flags(AUTHENTICATION_BUILTIN_READERS_INIT_LIST)
     \cup Flags(AUTHENTICATION_BUILTIN_WRITERS_INIT_LIST)
     \cup SecureBuiltinEndpoints

\* The built-in writers and readers Discovery has made in the local event loop.
BuiltinWriterIds ==
  LET all == STANDARD_BUILTIN_READERS_INIT_LIST \o AUTHENTICATION_BUILTIN_READERS_INIT_LIST
               \o SECURE_BUILTIN_READERS_INIT_LIST
  IN { all[i][1] : i \in 1..Len(all) }

BuiltinReaderIds ==
  LET all == STANDARD_BUILTIN_WRITERS_INIT_LIST \o AUTHENTICATION_BUILTIN_WRITERS_INIT_LIST
               \o SECURE_BUILTIN_WRITERS_INIT_LIST
  IN { all[i][2] : i \in 1..Len(all) }

\* SecureDiscovery and the event loop of a participant whose Discovery has made
\* the built-in endpoints; a remote announces all built-in endpoints, or all
\* but the secure publications reader.
MatchingInit ==
  /\ handshake_states = [l \in Participants |-> EmptyMap]
  /\ stored_authentication_messages = [l \in Participants |-> EmptyMap]
  /\ next_seqnum = [l \in Participants |-> 1]
  /\ local_dp_sec_attributes \in
       { f \in [Participants -> ParticipantSecurityAttributes] :
           \A q \in Participants \ SpecLocals :
             f[q] = [ allow_unauthenticated_participants |-> FALSE,
                      is_access_protected |-> FALSE ] }
  /\ authentication_status = [l \in Participants |-> EmptyMap]
  /\ participant_proxies = [l \in Participants |-> {}]
  /\ available_builtin_endpoints \in
       [Participants ->
          { BuiltinEndpoints, BuiltinEndpoints \ {"PUBLICATIONS_SECURE_READER"} }]
  /\ \A l \in SpecLocals : available_builtin_endpoints[l] = BuiltinEndpoints
  /\ discovery_updated = [l \in Participants |-> << >>]
  /\ net = {}
  /\ last = NoLast
  /\ writers =
       [l \in Participants |->
          IF l \in SpecLocals
          THEN [e \in BuiltinWriterIds |-> [ readers |-> {} ]]
          ELSE EmptyMap]
  /\ available_readers =
       [l \in Participants |->
          IF l \in SpecLocals
          THEN [e \in BuiltinReaderIds |-> [ matched_writers |-> {} ]]
          ELSE EmptyMap]
  /\ discovery_command = [l \in Participants |-> << >>]
  /\ ReactorNew
  /\ RestNew

DoUpdateParticipant == \E l \in SpecLocals : UpdateParticipant(l)

MatchingNext == DoSpdpRead \/ DoStatelessRead \/ DoResendTick \/ DoUpdateParticipant

MatchingSpec == MatchingInit /\ [][MatchingNext]_vars

\* The local endpoints update_participant may match to a remote with the given
\* status: each with the GUID of the remote endpoint.
EndpointsFor(r, readers_list, writers_list) ==
  { << readers_list[i][1],
       IF readers_list[i][1] = "SPDP_BUILTIN_PARTICIPANT_WRITER"
       THEN GUID(0, "SPDP_BUILTIN_PARTICIPANT_READER")
       ELSE GUID(r, readers_list[i][2]) >> :
      i \in { j \in 1..Len(readers_list) :
                readers_list[j][3] \in available_builtin_endpoints[r] } }
  \cup
  { << writers_list[i][2], GUID(r, writers_list[i][1]) >> :
      i \in { j \in 1..Len(writers_list) :
                writers_list[j][3] \in available_builtin_endpoints[r] } }

StatelessEndpoints(r) ==
  EndpointsFor(r, AUTHENTICATION_BUILTIN_READERS_INIT_LIST,
               AUTHENTICATION_BUILTIN_WRITERS_INIT_LIST)

StandardEndpoints(r) ==
  EndpointsFor(r, STANDARD_BUILTIN_READERS_INIT_LIST, STANDARD_BUILTIN_WRITERS_INIT_LIST)

SecureEndpoints(r) ==
  EndpointsFor(r, SECURE_BUILTIN_READERS_INIT_LIST, SECURE_BUILTIN_WRITERS_INIT_LIST)

\* The proxies the local event loop holds now.
ProxiesHeld(l) ==
  ProxiesAdded([ writers |-> EmptyMap, available_readers |-> EmptyMap ], EventLoop(l))

\* C11: when the event loop has processed ParticipantUpdated for a remote in
\* DiscoveryDB, the built-in endpoints the remote announces are matched by its
\* authentication status: Authenticating - the stateless-message endpoints and
\* no other; Authenticated - all standard and all secure ones; Unauthenticated
\* - the standard ones and no other; Rejected or none - nothing.  And at all
\* times a secure built-in endpoint is matched only to a remote that is
\* Authenticated.
C11_Matching ==
  /\ last.op = "update_participant" /\ last.info.in_db =>
       LET l == last.local
           r == last.remote
           expected ==
             CASE last.info.status = "Authenticating" -> StatelessEndpoints(r)
               [] last.info.status = "Authenticated" ->
                    StandardEndpoints(r) \cup SecureEndpoints(r)
               [] last.info.status = "Unauthenticated" -> StandardEndpoints(r)
               [] OTHER -> {}
       IN /\ last.info.added \subseteq expected
          /\ expected \subseteq ProxiesHeld(l)
  /\ last.op = "update_participant" /\ ~last.info.in_db => last.info.added = {}
  /\ \A l \in SpecLocals : \A r \in RemotesOf(l) :
       StatusOf(l, r) # "Authenticated" => SecureEndpoints(r) \cap ProxiesHeld(l) = {}

\* A remote became Authenticated after it was Authenticating, and the second
\* ParticipantUpdated brought the volatile-secure endpoints.
C11_Witness ==
  /\ last.op = "update_participant"
  /\ last.info.status = "Authenticated"
  /\ << P2P_BUILTIN_PARTICIPANT_VOLATILE_SECURE_WRITER,
        GUID(last.remote, P2P_BUILTIN_PARTICIPANT_VOLATILE_SECURE_READER) >>
       \in last.info.added
  /\ StatelessEndpoints(last.remote) \subseteq ProxiesHeld(last.local)
  /\ StandardEndpoints(last.remote) \subseteq last.info.added

\* ------------------------------------------------ DP event loop: the reactor

\* The participant whose event loop and application are modelled.
ReactorLocal == CHOOSE l \in SpecLocals : TRUE

\* The channels made by sync_channel(n); the stop channel is made by
\* channel() and has no bound.
BoundedChannels == EventLoopChannels \ { "stop_poll" }

ChannelCapacity(c) ==
  CASE c = "add_reader" -> 100
    [] c = "remove_reader" -> 4
    [] c = "add_writer" -> 10
    [] c = "remove_writer" -> 4
    [] c = "discovery_db_event" -> 1
    [] c = "spdp_liveness" -> 8
    [] c = "discovery_updated" -> 32
    [] c = "discovery_command" -> 64
    [] c = "acknack" -> 100

\* The token a channel is registered with (PollOpt::edge).
TokenOf(c) ==
  CASE c = "stop_poll" -> "STOP_POLL_TOKEN"
    [] c = "add_reader" -> "ADD_READER_TOKEN"
    [] c = "remove_reader" -> "REMOVE_READER_TOKEN"
    [] c = "add_writer" -> "ADD_WRITER_TOKEN"
    [] c = "remove_writer" -> "REMOVE_WRITER_TOKEN"
    [] c = "discovery_updated" -> "DISCOVERY_UPDATE_NOTIFICATION_TOKEN"
    [] c = "acknack" -> "ACKNACK_MESSAGE_TO_LOCAL_WRITER_TOKEN"

SeqRange(q) == { q[i] : i \in 1..Len(q) }

SeqWithout(q, x) == SelectSeq(q, LAMBDA y : y # x)

\* The event loop with its poller and channels, as the record the handlers
\* transform.
Reactor ==
  [ channel |-> channel,
    readiness |-> readiness,
    event_loop |-> event_loop,
    poll_registered |-> poll_registered,
    writers |-> writers[ReactorLocal],
    available_readers |-> available_readers[ReactorLocal],
    stop_poll_connected |-> app.participant # "abandoned" ]

\* Whether a send on channel c can go ahead (a SyncSender blocks while the
\* channel is full).
HasRoom(c) ==
  c \notin BoundedChannels \/ Len(channel[c]) < ChannelCapacity(c)

\* mio_extras Sender::send / SyncSender::send: the message is queued, and the
\* sender that finds no message pending sets the channel readable, which
\* queues one readiness event.
send(rs, c, message) ==
  [rs EXCEPT
     !.channel[c] = Append(@, message),
     !.readiness = IF Len(rs.channel[c]) = 0 /\ TokenOf(c) \notin SeqRange(@)
                   THEN Append(@, TokenOf(c)) ELSE @]

\* mio_extras Receiver::try_recv of a channel that is not empty: the message
\* is taken, and taking the last pending one unsets the readiness.
try_recv(rs, c) ==
  [rs EXCEPT
     !.channel[c] = Tail(@),
     !.readiness = IF Len(rs.channel[c]) = 1 THEN SeqWithout(@, TokenOf(c)) ELSE @]

\* A variant that returns when the stop channel is disconnected.
handle_stop_poll_returning(rs) ==
  IF rs.channel["stop_poll"] = << >>
  THEN IF rs.stop_poll_connected
       THEN [rs EXCEPT !.event_loop.stop_poll_error = "Empty"]
       ELSE [rs EXCEPT !.event_loop.stop_poll_error = "Disconnected",
                       !.event_loop.returned = TRUE]
  ELSE LET command == Head(rs.channel["stop_poll"])
           taken == try_recv(rs, "stop_poll")
       IN IF command = "Stop"
          THEN [taken EXCEPT !.event_loop.returned = TRUE]
          ELSE [taken EXCEPT !.event_loop.preparing_to_stop = TRUE]

\* event_loop, STOP_POLL_TOKEN: one try_recv for the event.  Err(Empty) and
\* Err(Disconnected) are logged and the loop goes on.
handle_stop_poll(rs) ==
  IF rs.channel["stop_poll"] = << >>
  THEN [rs EXCEPT !.event_loop.stop_poll_error =
          IF rs.stop_poll_connected THEN "Empty" ELSE "Disconnected"]
  ELSE LET command == Head(rs.channel["stop_poll"])
           taken == try_recv(rs, "stop_poll")
       IN IF command = "Stop"
          THEN [taken EXCEPT !.event_loop.returned = TRUE]
          ELSE [taken EXCEPT !.event_loop.preparing_to_stop = TRUE]

EntityToken(guid) == << "entity", guid >>
AltEntityToken(guid) == << "alt_entity", guid >>

add_local_reader(rs, reader_ing) ==
  [rs EXCEPT
     !.poll_registered = @ \cup {AltEntityToken(reader_ing), EntityToken(reader_ing)},
     !.available_readers = MapInsert(@, reader_ing, [ matched_writers |-> {} ])]

remove_local_reader(rs, reader_guid) ==
  IF reader_guid \in DOMAIN rs.available_readers
  THEN [rs EXCEPT
          !.available_readers = MapRemove(@, reader_guid),
          !.poll_registered =
             @ \ {AltEntityToken(reader_guid), EntityToken(reader_guid)}]
  ELSE rs

add_local_writer(rs, writer_ing) ==
  [rs EXCEPT
     !.poll_registered = @ \cup {AltEntityToken(writer_ing), EntityToken(writer_ing)},
     !.writers = MapInsert(@, writer_ing, [ readers |-> {} ])]

remove_local_writer(rs, writer_guid) ==
  IF writer_guid \in DOMAIN rs.writers
  THEN [rs EXCEPT
          !.writers = MapRemove(@, writer_guid),
          !.poll_registered =
             @ \ {AltEntityToken(writer_guid), EntityToken(writer_guid)}]
  ELSE rs

\* A variant that takes one message for an event.
handle_reader_action_once(rs, token) ==
  LET c == IF token = "ADD_READER_TOKEN" THEN "add_reader" ELSE "remove_reader"
  IN IF rs.channel[c] = << >> THEN rs
     ELSE IF token = "ADD_READER_TOKEN"
          THEN add_local_reader(try_recv(rs, c), Head(rs.channel[c]))
          ELSE remove_local_reader(try_recv(rs, c), Head(rs.channel[c]))

RECURSIVE handle_reader_action(_, _)
\* while let Ok(..) = receiver.try_recv() { add_local_reader / remove_local_reader }
handle_reader_action(rs, token) ==
  LET c == IF token = "ADD_READER_TOKEN" THEN "add_reader" ELSE "remove_reader"
  IN IF rs.channel[c] = << >> THEN rs
     ELSE LET message == Head(rs.channel[c])
              taken == try_recv(rs, c)
          IN handle_reader_action(
               IF token = "ADD_READER_TOKEN"
               THEN add_local_reader(taken, message)
               ELSE remove_local_reader(taken, message),
               token)

RECURSIVE handle_writer_action(_, _)
handle_writer_action(rs, token) ==
  LET c == IF token = "ADD_WRITER_TOKEN" THEN "add_writer" ELSE "remove_writer"
  IN IF rs.channel[c] = << >> THEN rs
     ELSE LET message == Head(rs.channel[c])
              taken == try_recv(rs, c)
          IN handle_writer_action(
               IF token = "ADD_WRITER_TOKEN"
               THEN add_local_writer(taken, message)
               ELSE remove_local_writer(taken, message),
               token)

\* The wrap of the count of send_preemptive_acknacks calls.
AcknackRounds == 3

\* A variant that does not set the timer again.
handle_acknack_timer_once(rs) ==
  [rs EXCEPT !.event_loop.preemptive_acknacks = (@ + 1) % AcknackRounds]

\* event_loop, DPEV_ACKNACK_TIMER_TOKEN: send_preemptive_acknacks, then
\* acknack_timer.set_timeout(PREEMPTIVE_ACKNACK_PERIOD).
handle_acknack_timer(rs) ==
  [rs EXCEPT !.event_loop.preemptive_acknacks = (@ + 1) % AcknackRounds,
             !.event_loop.acknack_timer = "armed"]

\* The reactor record becomes the state; the rest is named by the action.
CommitReactor(rs) ==
  /\ channel' = rs.channel
  /\ readiness' = rs.readiness
  /\ event_loop' = rs.event_loop
  /\ poll_registered' = rs.poll_registered
  /\ writers' = [writers EXCEPT ![ReactorLocal] = rs.writers]
  /\ available_readers' = [available_readers EXCEPT ![ReactorLocal] = rs.available_readers]
  /\ UNCHANGED << handshake_states, stored_authentication_messages, next_seqnum,
                  local_dp_sec_attributes, authentication_status,
                  participant_proxies, available_builtin_endpoints,
                  discovery_updated, net, last >>
  /\ UNCHANGED restVars

\* poll.poll(&mut events, 2 s) returns the readiness events queued; being
\* edge-triggered, it takes them off the queue.
Poll ==
  /\ ~event_loop.returned
  /\ events = << >>
  /\ readiness # << >>
  /\ events' = readiness
  /\ CommitReactor([Reactor EXCEPT !.readiness = << >>])
  /\ UNCHANGED << app, discovery_command >>

\* The body of "for event in events.iter()" for the next event.
HandleEvent ==
  /\ ~event_loop.returned
  /\ events # << >>
  /\ LET token == Head(events)
         rs == CASE token = "STOP_POLL_TOKEN" -> handle_stop_poll(Reactor)
                 [] token \in {"ADD_READER_TOKEN", "REMOVE_READER_TOKEN"} ->
                      handle_reader_action(Reactor, token)
                 [] token \in {"ADD_WRITER_TOKEN", "REMOVE_WRITER_TOKEN"} ->
                      handle_writer_action(Reactor, token)
                 [] token = "DPEV_ACKNACK_TIMER_TOKEN" -> handle_acknack_timer(Reactor)
     IN /\ CommitReactor(rs)
        /\ events' = IF rs.event_loop.returned THEN << >> ELSE Tail(events)
  /\ UNCHANGED << app, discovery_command >>

\* The application makes a reader or writer: its ingredients go to the event
\* loop.
CreateEntity(e) ==
  LET c == IF e \in UserReaders THEN "add_reader" ELSE "add_writer"
  IN /\ app.participant = "alive"
     /\ app.entities[e] = "none"
     /\ HasRoom(c)
     /\ CommitReactor(send(Reactor, c, e))
     /\ app' = [app EXCEPT !.entities[e] = "added"]
     /\ UNCHANGED << events, discovery_command >>

\* The application drops it: its GUID goes to the event loop.
DropEntity(e) ==
  LET c == IF e \in UserReaders THEN "remove_reader" ELSE "remove_writer"
  IN /\ app.participant = "alive"
     /\ app.entities[e] = "added"
     /\ HasRoom(c)
     /\ CommitReactor(send(Reactor, c, e))
     /\ app' = [app EXCEPT !.entities[e] = "removed"]
     /\ UNCHANGED << events, discovery_command >>

\* Drop for DomainParticipantDisc: PrepareStop to the event loop, StopDiscovery
\* to Discovery.
DropParticipantDisc ==
  /\ app.participant = "alive"
  /\ CommitReactor(send(Reactor, "stop_poll", "PrepareStop"))
  /\ discovery_command' =
       [discovery_command EXCEPT ![ReactorLocal] =
          Append(@, [ command |-> "StopDiscovery" ])]
  /\ app' = [app EXCEPT !.participant = "disc_dropped"]
  /\ UNCHANGED events

\* Drop for DomainParticipantInner: Stop to the event loop, then the join.
DropParticipantInner ==
  /\ app.participant = "disc_dropped"
  /\ CommitReactor(send(Reactor, "stop_poll", "Stop"))
  /\ app' = [app EXCEPT !.participant = "joining"]
  /\ UNCHANGED << events, discovery_command >>

\* join_handle.join() returns when event_loop has returned.
JoinEventLoop ==
  /\ app.participant = "joining"
  /\ event_loop.returned
  /\ app' = [app EXCEPT !.participant = "joined"]
  /\ UNCHANGED << discoveryVars, eventLoopVars, channel, readiness, events,
                  event_loop, poll_registered, restVars >>

ReactorInit == InitOf({})

DoCreateEntity == \E e \in UserReaders \cup UserWriters : CreateEntity(e)

DoDropEntity == \E e \in UserReaders \cup UserWriters : DropEntity(e)

ReactorNext ==
  \/ Poll \/ HandleEvent \/ DoCreateEntity \/ DoDropEntity
  \/ DropParticipantDisc \/ DropParticipantInner \/ JoinEventLoop

\* The event-loop thread keeps running; the thread that drops the participant
\* goes on from the first drop to the second and to the join.
ReactorFairness ==
  /\ WF_vars(Poll)
  /\ WF_vars(HandleEvent)
  /\ WF_vars(DropParticipantInner)
  /\ WF_vars(JoinEventLoop)

ReactorSpec == ReactorInit /\ [][ReactorNext]_vars /\ ReactorFairness

StopSent == app.participant \in {"joining", "joined"}

\* C12: once Stop has been sent the event loop eventually returns and the
\* participant's join completes, whatever was queued on the stop channel
\* before it.
C12_StopReturns == StopSent ~> (event_loop.returned /\ app.participant = "joined")

\* The event loop has taken both messages of entity e: its ingredients from
\* the add channel and its GUID from the remove channel.
BothProcessed(e) ==
  /\ app.entities[e] = "removed"
  /\ \A c \in EventLoopChannels \ {"stop_poll"} : e \notin SeqRange(channel[c])

HeldByLoop(e) ==
  \/ e \in DOMAIN writers[ReactorLocal]
  \/ e \in DOMAIN available_readers[ReactorLocal]
  \/ EntityToken(e) \in poll_registered
  \/ AltEntityToken(e) \in poll_registered

\* C20: once the event loop has processed the add and the remove message of a
\* reader or writer, the loop holds it no more and its command channel and
\* timer are deregistered, in whichever order the two channel events came.
C20_Removed ==
  \A e \in UserReaders \cup UserWriters : BothProcessed(e) => ~HeldByLoop(e)

\* ------------------------------------------- DomainParticipantInner::new

\* The number of participant ids tried (RTPS 2.5, 9.6.2.3).
ParticipantIdLimit == 120

\* What opening the user-traffic unicast listener may come to.
UserTrafficListenerResults == { "Ok", "AddrInUseThenOk", "AddrInUseThenErr", "Err" }

\* A variant of the loop step that goes on to the next id after a bind too.
bind_next_participant_id_skipping(c, bound) ==
  [c EXCEPT !.participant_id = @ + 1,
            !.discovery_listener = IF bound THEN Some(c.participant_id) ELSE None,
            !.failed = IF bound THEN @ ELSE @ \cup {c.participant_id}]

\* One turn of "while discovery_listener.is_none() && participant_id < 120":
\* UDPListener::new_unicast on the SPDP unicast port of participant_id binds
\* or not.
bind_next_participant_id(c, bound) ==
  IF bound
  THEN [c EXCEPT !.discovery_listener = Some(c.participant_id)]
  ELSE [c EXCEPT !.participant_id = @ + 1, !.failed = @ \cup {c.participant_id}]

\* The rest of new after the loop: no listener is OutOfResources; otherwise
\* the user-traffic listeners are opened, the channels made and the
\* event-loop thread spawned.
finish_new(c, user_traffic, spawned) ==
  IF c.discovery_listener = None
  THEN [c EXCEPT !.pc = "done", !.result = Some("OutOfResources")]
  ELSE IF user_traffic \in {"AddrInUseThenErr", "Err"}
  THEN [c EXCEPT !.pc = "done", !.result = Some("OutOfResources")]
  ELSE IF ~spawned
  THEN [c EXCEPT !.pc = "done", !.result = Some("Io")]
  ELSE [c EXCEPT !.pc = "done", !.result = Some("Ok"), !.event_loop_spawned = TRUE]

ConstructionUnchanged == UNCHANGED << discoveryVars, eventLoopVars, reactorVars, findTopicVars, channelVars, cryptoVars, runtimeVars >>

BindParticipantId(bound) ==
  /\ construction.pc = "bind"
  /\ construction.discovery_listener = None
  /\ construction.participant_id < ParticipantIdLimit
  /\ construction' = bind_next_participant_id(construction, bound)
  /\ ConstructionUnchanged

FinishNew(user_traffic, spawned) ==
  /\ construction.pc = "bind"
  /\ ~(construction.discovery_listener = None
         /\ construction.participant_id < ParticipantIdLimit)
  /\ construction' = finish_new(construction, user_traffic, spawned)
  /\ ConstructionUnchanged

ConstructionInit == InitOf({})

DoBindParticipantId == \E bound \in BOOLEAN : BindParticipantId(bound)

DoFinishNew ==
  \E user_traffic \in UserTrafficListenerResults : \E spawned \in BOOLEAN :
    FinishNew(user_traffic, spawned)

ConstructionNext == DoBindParticipantId \/ DoFinishNew

ConstructionSpec == ConstructionInit /\ [][ConstructionNext]_vars

\* C13: when new has ended, either a listener is bound to the SPDP unicast
\* port of participant id p, p is in 0..119 and every smaller id failed to
\* bind; or all 120 ids failed, the result is OutOfResources and no
\* event-loop thread was spawned.  The thread is spawned only with a
\* participant id.
C13_LowestId ==
  construction.pc = "done" =>
    IF construction.discovery_listener # None
    THEN /\ construction.discovery_listener = Some(construction.participant_id)
         /\ construction.participant_id \in 0..(ParticipantIdLimit - 1)
         /\ construction.failed = 0..(construction.participant_id - 1)
    ELSE /\ construction.failed = 0..(ParticipantIdLimit - 1)
         /\ construction.result = Some("OutOfResources")
         /\ ~construction.event_loop_spawned

\* Participant ids 0, 1 and 2 were taken and 3 was bound.
C13_Witness ==
  /\ construction.pc = "done"
  /\ construction.result = Some("Ok")
  /\ construction.participant_id = 3
  /\ construction.failed = {0, 1, 2}
  /\ construction.event_loop_spawned

\* All 120 ids were taken.
C13_WitnessNone ==
  /\ construction.pc = "done"
  /\ construction.discovery_listener = None
  /\ construction.failed = 0..(ParticipantIdLimit - 1)

\* ------------------------------------------------------------ find_topic

TopicNames == { "T1", "T2" }

MaxTimeout == 2

MaxCalls == 2

MaxNow == 6

\* The capacity of the discovery_db_event channel.
DiscoveryDbEventCapacity == 1

\* "find_end - Instant::now()": the subtraction of two Instants is
\* duration_since, which gives zero when the other one is later.
duration_since(later, earlier) == IF later >= earlier THEN later - earlier ELSE 0

\* find_topic up to the loop.  Registering a channel receiver that has a
\* registration already is an error ("receiver already registered"), which
\* the ? gives back to the caller.
find_topic_begin(f, name, timeout, registered, present) ==
  IF registered
  THEN [f EXCEPT !.pc = "returned", !.name = name, !.result = Some("Err(Io)"),
                 !.calls = @ + 1, !.find_end = now + timeout,
                 !.discovered_in_time = present]
  ELSE [f EXCEPT !.pc = "loop", !.name = name, !.result = None,
                 !.calls = @ + 1, !.find_end = now + timeout,
                 !.discovered_in_time = present]

\* The head of the loop: find_topic_in_discovery_db, and then the timeout of
\* the poll.
find_topic_lookup(f, db) ==
  IF f.name \in db
  THEN [f EXCEPT !.pc = "returned", !.result = Some("Ok(Some)")]
  ELSE [f EXCEPT !.pc = "poll", !.deadline = now + duration_since(f.find_end, now)]

\* After poll: an event whose () is received starts the loop again; without
\* one the loop ends when the time is past find_end.
find_topic_polled(f, received) ==
  IF received THEN [f EXCEPT !.pc = "loop"]
  ELSE IF now > f.find_end THEN [f EXCEPT !.pc = "returned", !.result = Some("Ok(None)")]
  ELSE [f EXCEPT !.pc = "loop"]

FindTopicUnchanged == UNCHANGED << discoveryVars, eventLoopVars, reactorVars, constructionVars, channelVars, cryptoVars, runtimeVars >>

FindTopicCall(name, timeout) ==
  /\ find.pc \in {"idle", "returned"}
  /\ find.calls < MaxCalls
  /\ now + timeout < MaxNow
  /\ find' = find_topic_begin(find, name, timeout, registration, name \in topics)
  /\ registration' = TRUE
  /\ UNCHANGED << now, topics, discovery_db_event >>
  /\ FindTopicUnchanged

FindTopicLookup ==
  /\ find.pc = "loop"
  /\ find' = find_topic_lookup(find, topics)
  /\ UNCHANGED << now, topics, discovery_db_event, registration >>
  /\ FindTopicUnchanged

\* The poll is level-triggered: it returns while a () is queued, and
\* otherwise when its timeout has passed.
FindTopicPoll ==
  /\ find.pc = "poll"
  /\ discovery_db_event > 0 \/ now >= find.deadline
  /\ find' = find_topic_polled(find, discovery_db_event > 0)
  /\ discovery_db_event' = IF discovery_db_event > 0 THEN discovery_db_event - 1 ELSE 0
  /\ UNCHANGED << now, topics, registration >>
  /\ FindTopicUnchanged

\* Discovery puts a topic into DiscoveryDB and tells it with a try_send on
\* the discovery_db_event channel, which a full channel drops.
DiscoverTopic(name) ==
  /\ name \notin topics
  /\ topics' = topics \cup {name}
  /\ discovery_db_event' =
       IF discovery_db_event < DiscoveryDbEventCapacity
       THEN discovery_db_event + 1 ELSE discovery_db_event
  /\ find' = IF find.pc \in {"loop", "poll"} /\ find.name = name /\ now < find.find_end
             THEN [find EXCEPT !.discovered_in_time = TRUE] ELSE find
  /\ UNCHANGED << now, registration >>
  /\ FindTopicUnchanged

Tick ==
  /\ now < MaxNow
  /\ now' = now + 1
  /\ UNCHANGED << find, topics, discovery_db_event, registration >>
  /\ FindTopicUnchanged

FindTopicInit == InitOf({})

DoFindTopicCall ==
  \E name \in TopicNames : \E timeout \in 0..MaxTimeout : FindTopicCall(name, timeout)

DoDiscoverTopic == \E name \in TopicNames : DiscoverTopic(name)

FindTopicNext ==
  DoFindTopicCall \/ FindTopicLookup \/ FindTopicPoll \/ DoDiscoverTopic \/ Tick

FindTopicFairness ==
  WF_vars(FindTopicLookup) /\ WF_vars(FindTopicPoll) /\ WF_vars(Tick)

FindTopicSpec == FindTopicInit /\ [][FindTopicNext]_vars /\ FindTopicFairness

\* C14: a find_topic call that has returned gave Some(topic) if the topic
\* was in DiscoveryDB when it was called or came into it before the timeout
\* had passed, and None or Some(topic) otherwise; it gave no error.
C14_FindTopic ==
  find.pc = "returned" =>
    /\ find.result \in { Some("Ok(Some)"), Some("Ok(None)") }
    /\ find.discovered_in_time => find.result = Some("Ok(Some)")

\* The second call finds the topic in DiscoveryDB and fails.
C14_Witness ==
  /\ find.pc = "returned"
  /\ find.calls = 2
  /\ find.discovered_in_time
  /\ find.result = Some("Err(Io)")

\* What holds of the first call of a participant: it gives no error; it
\* gives Some(topic) for a topic that was there in time.
FirstFindTopic ==
  (find.pc = "returned" /\ find.calls = 1) =>
    /\ find.result # Some("Err(Io)")
    /\ find.discovered_in_time => find.result = Some("Ok(Some)")
    /\ find.result = Some("Ok(Some)") => find.name \in topics
    /\ find.result = Some("Ok(None)") => now > find.find_end

\* A poll that has to wait is never past find_end.
FindTopicWaitsWithinTimeout ==
  (find.pc = "poll" /\ now < find.deadline) => find.deadline <= find.find_end

\* Every call returns.
FindTopicReturns == (find.pc \in {"loop", "poll"}) ~> (find.pc = "returned")

\* ---------------------------------------------------------------- channels

\* The channels made by mio_channel::sync_channel(n); stop_poll and
\* discovery_join_handle are made by mio_channel::channel().
SyncChannels == Channels \ { "stop_poll", "discovery_join_handle" }

EventLoopCommands == { "PrepareStop", "Stop" }

\* A variant of the sending that does not look at the room.
sync_send_unbounded(c, n, alive) ==
  IF ~alive THEN [ queued |-> n, outcome |-> "Disconnected" ]
  ELSE [ queued |-> n + 1, outcome |-> "Ok" ]

\* SyncSender::send on a channel that holds n messages: an error if the
\* receiver is gone, the message queued if there is room, and otherwise the
\* sending thread waits.
sync_send(c, n, alive) ==
  IF ~alive THEN [ queued |-> n, outcome |-> "Disconnected" ]
  ELSE IF n < ChannelCapacity(c) THEN [ queued |-> n + 1, outcome |-> "Ok" ]
  ELSE [ queued |-> n, outcome |-> "Blocked" ]

\* SyncSender::try_send: as send, but a full channel is an error at once.
sync_try_send(c, n, alive) ==
  IF sync_send(c, n, alive).outcome = "Blocked"
  THEN [ queued |-> n, outcome |-> "Full" ]
  ELSE sync_send(c, n, alive)

\* DomainParticipantDisc::assert_liveliness:
\* send(ManualAssertLiveliness).map_err(|_e| WouldBlock), as far as the
\* send goes without waiting.
assert_liveliness(n, alive) ==
  LET sent == sync_send("discovery_command", n, alive) IN
  [ queued |-> sent.queued,
    call |-> CASE sent.outcome = "Ok" ->
                    [ pc |-> "returned", result |-> Some("Ok"), full |-> FALSE ]
               [] sent.outcome = "Disconnected" ->
                    [ pc |-> "returned", result |-> Some("WouldBlock"), full |-> FALSE ]
               [] sent.outcome = "Blocked" ->
                    [ pc |-> "send", result |-> None, full |-> TRUE ] ]

ChannelsUnchanged == UNCHANGED << discoveryVars, eventLoopVars, reactorVars, constructionVars, findTopicVars, cryptoVars, runtimeVars >>

AssertLiveliness ==
  /\ chan = "discovery_command"
  /\ call.pc # "send"
  /\ queued' = assert_liveliness(queued, connected).queued
  /\ call' = assert_liveliness(queued, connected).call
  /\ UNCHANGED << chan, connected, stop_commands >>
  /\ ChannelsUnchanged

\* The waiting send goes on when the receiver has made room or is gone.
AssertLivelinessWakes ==
  /\ chan = "discovery_command"
  /\ call.pc = "send"
  /\ sync_send(chan, queued, connected).outcome # "Blocked"
  /\ queued' = assert_liveliness(queued, connected).queued
  /\ call' = [ assert_liveliness(queued, connected).call EXCEPT !.full = TRUE ]
  /\ UNCHANGED << chan, connected, stop_commands >>
  /\ ChannelsUnchanged

\* Another sender of a sync_channel puts a message into it, with send when
\* there is room or with try_send.
SyncSend ==
  /\ chan \in SyncChannels
  /\ queued' = sync_try_send(chan, queued, connected).queued
  /\ UNCHANGED << chan, connected, call, stop_commands >>
  /\ ChannelsUnchanged

\* Drop for DomainParticipantDisc sends PrepareStop and Drop for
\* DomainParticipantInner sends Stop, each once, on the stop_poll channel.
SendEventLoopCommand(command) ==
  /\ chan = "stop_poll"
  /\ command \notin stop_commands
  /\ command = "Stop" => "PrepareStop" \in stop_commands
  /\ stop_commands' = stop_commands \cup {command}
  /\ queued' = IF connected THEN queued + 1 ELSE queued
  /\ UNCHANGED << chan, connected, call >>
  /\ ChannelsUnchanged

\* DomainParticipantBuilder::build sends the JoinHandle of the discovery
\* thread once.
SendJoinHandle ==
  /\ chan = "discovery_join_handle"
  /\ stop_commands = {}
  /\ queued = 0
  /\ connected
  /\ queued' = 1
  /\ stop_commands' = { "JoinHandle" }
  /\ UNCHANGED << chan, connected, call >>
  /\ ChannelsUnchanged

\* The receiving thread takes a message with try_recv.
Receive ==
  /\ connected
  /\ queued > 0
  /\ queued' = queued - 1
  /\ UNCHANGED << chan, connected, call, stop_commands >>
  /\ ChannelsUnchanged

\* The receiving thread ends and drops the receiver.
ReceiverDropped ==
  /\ connected
  /\ connected' = FALSE
  /\ queued' = 0
  /\ UNCHANGED << chan, call, stop_commands >>
  /\ ChannelsUnchanged

ChannelsInit ==
  /\ DiscoveryNew({})
  /\ EventLoopNew /\ ReactorNew /\ ConstructionNew /\ FindTopicNew /\ CodecNew /\ CryptoNew /\ RuntimeNew
  /\ \E c \in Channels : ChannelNew(c)

DoSendEventLoopCommand == \E command \in EventLoopCommands : SendEventLoopCommand(command)

ChannelsNext ==
  \/ AssertLiveliness
  \/ AssertLivelinessWakes
  \/ SyncSend
  \/ DoSendEventLoopCommand
  \/ SendJoinHandle
  \/ Receive
  \/ ReceiverDropped

ChannelsSpec == ChannelsInit /\ [][ChannelsNext]_vars

\* C15: an assert_liveliness that found the discovery-command channel full
\* has returned WouldBlock and is not waiting; one that found room has
\* returned Ok.
C15_FullIsWouldBlock ==
  /\ call.full => (call.pc = "returned" /\ call.result = Some("WouldBlock"))
  /\ (call.pc = "returned" /\ ~call.full /\ connected) => call.result = Some("Ok")

\* The caller waits in send with 64 commands in the channel.
C15_Witness ==
  /\ chan = "discovery_command"
  /\ call.pc = "send"
  /\ queued = 64
  /\ connected

\* C19: a channel made by sync_channel never holds more messages than its
\* capacity (add_reader 100, remove_reader 4, add_writer 10,
\* remove_writer 4, discovery notification 32, discovery command 64,
\* acknack 100, spdp liveness 8, discovery_db event 1); the stop-command
\* channel of the event loop is made without a capacity and holds at most
\* the two commands PrepareStop and Stop that are ever sent.
C19_Bounded ==
  /\ chan \in SyncChannels => queued <= ChannelCapacity(chan)
  /\ chan = "stop_poll" => (chan \notin SyncChannels /\ queued <= Cardinality(EventLoopCommands))
  /\ chan = "discovery_join_handle" => queued <= 1

\* A sync_channel is full, the add_reader channel with 100 messages.
C19_Witness ==
  /\ chan = "add_reader"
  /\ queued = ChannelCapacity("add_reader")

\* The capacity a channel was made with, if any.
CapacityOf(c) == IF c \in SyncChannels THEN Some(ChannelCapacity(c)) ELSE None

\* C19 as stated: of the channels it names, every queued message is within
\* the capacity of its channel.
C19_AllBounded ==
  chan \in EventLoopChannels \cup { "discovery_updated", "discovery_command", "acknack" } =>
    \A i \in 1..queued : \E capacity \in CapacityOf(chan) : i <= capacity

\* Both stop commands are queued in the channel that has no capacity.
C19_StopChannel ==
  /\ chan = "stop_poll"
  /\ queued = 2

\* ------------------------------------------------------- CryptoTransform

BuiltinCryptoTransformationKind ==
  { "NONE", "AES128_GMAC", "AES256_GMAC", "AES128_GCM", "AES256_GCM" }

GmacKinds == { "AES128_GMAC", "AES256_GMAC" }

GcmKinds == { "AES128_GCM", "AES256_GCM" }

MaxPayloadLen == 2

MaxSubmessages == 2

\* A result of a fallible operation.
Ok(value) == [ ok |-> TRUE, value |-> value ]

SecurityError(message) == [ ok |-> FALSE, value |-> message ]

\* A buffer is a sequence of units [t, v]; a data unit stands for four bytes
\* of payload.
Unit(t, v) == [ t |-> t, v |-> v ]

PlainBuffers == UNION { [1..n -> { Unit("data", d) : d \in {0, 1} }] : n \in 1..MaxPayloadLen }

\* aes_gcm_gmac, as terms: a MAC is made from the key, the initialization
\* vector and the data; a ciphertext is opened with the key, the vector and
\* the MAC it was made with.
compute_mac(key, iv, data) == [ mac_key |-> key, iv |-> iv, over |-> data ]

validate_mac(key, iv, data, mac) ==
  IF mac = compute_mac(key, iv, data) THEN Ok("()") ELSE SecurityError("MAC")

encrypt(key, iv, data) ==
  [ ciphertext |-> << Unit("ciphertext", [ cipher_key |-> key, iv |-> iv, plain |-> data ]) >>,
    mac |-> compute_mac(key, iv, data) ]

decrypt(key, iv, ciphertext, mac) ==
  IF /\ Len(ciphertext) = 1
     /\ ciphertext[1].t = "ciphertext"
     /\ ciphertext[1].v.cipher_key = key
     /\ ciphertext[1].v.iv = iv
     /\ mac = compute_mac(key, iv, ciphertext[1].v.plain)
  THEN Ok(ciphertext[1].v.plain)
  ELSE SecurityError("decrypt")

\* The key material of the sender, of the given transformation kind, and
\* the receiver-specific key it shares with the receiver.
SenderKeyId == 1

ReceiverSpecificKey == [ key_id |-> 2, key |-> "receiver specific key" ]

InitializationVector == [ session_id |-> 1, suffix |-> 1 ]

session_key(scope) == [ master_sender_key |-> "master", session_id |-> 1, scope |-> scope ]

\* session_encoding_materials of the sending handle.
session_encoding_materials(kind, scope, receivers) ==
  [ key_id |-> SenderKeyId, transformation_kind |-> kind, session_key |-> session_key(scope),
    initialization_vector |-> InitializationVector, receiver_specific_keys |-> receivers ]

\* session_decode_crypto_materials of a receiver that holds the key
\* material of the sender.
session_decode_crypto_materials(kind, scope, iv, receiver_specific) ==
  [ key_id |-> SenderKeyId, transformation_kind |-> kind,
    session_key |-> [ master_sender_key |-> "master", session_id |-> iv.session_id, scope |-> scope ],
    receiver_specific_key |-> IF receiver_specific THEN Some(ReceiverSpecificKey) ELSE None ]

\* The serialized forms.  A CryptoHeader is the transformation kind, the key
\* id and the initialization vector, a footer without receiver-specific
\* MACs the common MAC and the empty sequence; a CryptoContent is its
\* length and then its octets.
BuiltinCryptoHeader(kind, key_id, iv) ==
  << Unit("transformation_kind", kind), Unit("transformation_key_id", key_id), Unit("initialization_vector", iv) >>

BuiltinCryptoHeader_serialized_len == Len(BuiltinCryptoHeader("NONE", 0, 0))

only_common_mac(mac) == << Unit("common_mac", mac), Unit("receiver_specific_macs", << >>) >>

BuiltinCryptoFooter_minimal_serialized_len == Len(only_common_mac(0))

CryptoContent_write_to_vec(data) == << Unit("length", Len(data)) >> \o data

\* The least payload, of four bytes.
MinPayloadLen == Len(<< Unit("data", 0) >>)

BuiltinCryptoHeader_read_from_buffer(bytes) ==
  IF /\ Len(bytes) = BuiltinCryptoHeader_serialized_len
     /\ bytes[1].t = "transformation_kind"
     /\ bytes[2].t = "transformation_key_id"
     /\ bytes[3].t = "initialization_vector"
  THEN Ok([ transformation_kind |-> bytes[1].v, transformation_key_id |-> bytes[2].v,
            initialization_vector |-> bytes[3].v ])
  ELSE SecurityError("BuiltinCryptoHeader")

BuiltinCryptoFooter_read_from_buffer(bytes) ==
  IF Len(bytes) = BuiltinCryptoFooter_minimal_serialized_len /\ bytes[1].t = "common_mac" /\ bytes[2].t = "receiver_specific_macs"
  THEN Ok([ common_mac |-> bytes[1].v, receiver_specific_macs |-> bytes[2].v ])
  ELSE SecurityError("BuiltinCryptoFooter")

\* A variant of encode_serialized_payload that gives header, content and
\* footer as they are.
encode_serialized_payload_concat(plain_buffer, kind) ==
  LET m == session_encoding_materials(kind, "PayloadOnly", << >>)
      header == BuiltinCryptoHeader(kind, m.key_id, m.initialization_vector)
      gcm == encrypt(m.session_key, m.initialization_vector, plain_buffer)
      mac == compute_mac(m.session_key, m.initialization_vector, plain_buffer)
  IN  IF kind = "NONE" THEN Ok(plain_buffer)
      ELSE IF kind \in GmacKinds THEN Ok(header \o plain_buffer \o only_common_mac(mac))
      ELSE Ok(header \o gcm.ciphertext \o only_common_mac(gcm.mac))

\* CryptoTransform::encode_serialized_payload.
encode_serialized_payload(plain_buffer, kind) ==
  LET m == session_encoding_materials(kind, "PayloadOnly", << >>)
      header == BuiltinCryptoHeader(kind, m.key_id, m.initialization_vector)
      gcm == encrypt(m.session_key, m.initialization_vector, plain_buffer)
      mac == compute_mac(m.session_key, m.initialization_vector, plain_buffer)
  IN  IF kind = "NONE" THEN Ok(plain_buffer)
      ELSE IF kind \in GmacKinds
      THEN Ok(CryptoContent_write_to_vec(header \o plain_buffer \o only_common_mac(mac)))
      ELSE Ok(CryptoContent_write_to_vec(header \o gcm.ciphertext \o only_common_mac(gcm.mac)))

SplitAt(bytes, n) == << SubSeq(bytes, 1, n), SubSeq(bytes, n + 1, Len(bytes)) >>

\* decode_serialized_payload after the split: the header and the footer are
\* read, the key material got and compared, the content verified or opened.
decode_split_payload(header_bytes, content_bytes, footer_bytes, kind) ==
  LET header == BuiltinCryptoHeader_read_from_buffer(header_bytes)
      footer == BuiltinCryptoFooter_read_from_buffer(footer_bytes)
      k == session_decode_crypto_materials(kind, "PayloadOnly", header.value.initialization_vector, FALSE)
  IN  IF ~header.ok THEN header
      ELSE IF ~footer.ok THEN footer
      ELSE IF k.key_id # header.value.transformation_key_id
      THEN SecurityError("Mismatched decode key IDs")
      ELSE IF k.transformation_kind # header.value.transformation_kind
      THEN SecurityError("Mismatched transformation kinds")
      ELSE IF header.value.transformation_kind \in GcmKinds
      THEN decrypt(k.session_key, header.value.initialization_vector, content_bytes, footer.value.common_mac)
      ELSE IF validate_mac(k.session_key, header.value.initialization_vector, content_bytes, footer.value.common_mac).ok
      THEN Ok(content_bytes)
      ELSE SecurityError("MAC")

\* CryptoTransform::decode_serialized_payload by a receiver whose key
\* material for the sending datawriter is of the given kind.
decode_serialized_payload(buffer, kind) ==
  LET head_len == BuiltinCryptoHeader_serialized_len
      foot_len == BuiltinCryptoFooter_minimal_serialized_len
      header_bytes == SplitAt(buffer, head_len)[1]
      content_and_footer_bytes == SplitAt(buffer, head_len)[2]
      content_bytes == SplitAt(content_and_footer_bytes, Len(content_and_footer_bytes) - foot_len)[1]
      footer_bytes == SplitAt(content_and_footer_bytes, Len(content_and_footer_bytes) - foot_len)[2]
  IN  IF Len(buffer) < head_len + foot_len + MinPayloadLen
      THEN SecurityError("Encoded payload smaller than minimum size")
      ELSE decode_split_payload(header_bytes, content_bytes, footer_bytes, kind)

\* Submessages: a writer or a reader submessage is what an endpoint sends;
\* its serialized form is one unit.
Submessages == { [ body |-> [ class |-> c, id |-> i ] ] : c \in { "Writer", "Reader" }, i \in { 1, 2 } }

write_to_vec(submessage) == << Unit("submessage", submessage) >>

RECURSIVE write_all_to_vec(_)
write_all_to_vec(submessages) ==
  IF submessages = << >> THEN << >>
  ELSE write_to_vec(Head(submessages)) \o write_all_to_vec(Tail(submessages))

create_submessage(kind, element) == [ body |-> [ class |-> "Security", kind |-> kind, element |-> element ] ]

CryptoHeader(kind, key_id, iv) ==
  [ transformation_kind |-> kind, transformation_key_id |-> key_id, initialization_vector |-> iv ]

\* The MACs made for the receivers that have a receiver-specific key.
receiver_specific_macs(keys, iv, data) ==
  [ i \in 1..Len(keys) |-> [ key_id |-> keys[i].key_id, mac |-> compute_mac(keys[i].key, iv, data) ] ]

\* encode::encode_gmac: the footer of data that stays as it is.
encode_gmac(key, iv, plaintext, receiver_specific_keys) ==
  [ common_mac |-> compute_mac(key, iv, plaintext),
    receiver_specific_macs |-> receiver_specific_macs(receiver_specific_keys, iv, plaintext) ]

\* encode::encode_gcm: a SecureBody submessage with the ciphertext, and the
\* footer.
encode_gcm(key, iv, plaintext, receiver_specific_keys) ==
  LET gcm == encrypt(key, iv, plaintext) IN
  << create_submessage("SecureBody", gcm.ciphertext),
     [ common_mac |-> gcm.mac,
       receiver_specific_macs |-> receiver_specific_macs(receiver_specific_keys, iv, gcm.ciphertext) ] >>

\* decode::find_receiver_specific_mac.
find_receiver_specific_mac(receiver_specific_key, macs) ==
  IF receiver_specific_key = None THEN Ok(None)
  ELSE LET key == Unwrap(receiver_specific_key)
           found == { i \in 1..Len(macs) : macs[i].key_id = key.key_id }
       IN  IF found = {} THEN SecurityError("No MAC found for receiver_specific_key_id")
           ELSE Ok(Some([ key |-> key.key, mac |-> macs[CHOOSE i \in found : TRUE].mac ]))

\* The receiver-specific MAC, where one is expected, is that of the data.
receiver_specific_mac_valid(key_and_mac, iv, data) ==
  \A km \in key_and_mac : validate_mac(km.key, iv, data, km.mac).ok

\* decode::decode_submessage_gmac.
decode_submessage_gmac(key, iv, encoded_submessage, common_mac, key_and_mac) ==
  IF /\ validate_mac(key, iv, write_to_vec(encoded_submessage), common_mac).ok
     /\ receiver_specific_mac_valid(key_and_mac, iv, write_to_vec(encoded_submessage))
  THEN Ok("()")
  ELSE SecurityError("MAC")

\* decode::decode_submessage_gcm.
decode_submessage_gcm(key, iv, encoded_submessage, common_mac, key_and_mac) ==
  IF ~(encoded_submessage.body.class = "Security" /\ encoded_submessage.body.kind = "SecureBody")
  THEN SecurityError("Expected a SecureBody submessage")
  ELSE LET ciphertext == encoded_submessage.body.element
           plaintext == decrypt(key, iv, ciphertext, common_mac)
       IN  IF ~receiver_specific_mac_valid(key_and_mac, iv, ciphertext) THEN SecurityError("MAC")
           ELSE IF ~plaintext.ok THEN plaintext
           ELSE IF Len(plaintext.value) = 1 /\ plaintext.value[1].t = "submessage"
           THEN Ok(plaintext.value[1].v.body)
           ELSE SecurityError("Failed to deserialize the plaintext")

ReceiversOf(receiver_specific) == IF receiver_specific THEN << ReceiverSpecificKey >> ELSE << >>

\* CryptographicBuiltin::encode_submessage.
encode_submessage(plain_rtps_submessage, kind, receiver_specific) ==
  LET plaintext == write_to_vec(plain_rtps_submessage)
      m == session_encoding_materials(kind, "PayloadAndMetadata", ReceiversOf(receiver_specific))
      gmac == encode_gmac(m.session_key, m.initialization_vector, plaintext, m.receiver_specific_keys)
      gcm == encode_gcm(m.session_key, m.initialization_vector, plaintext, m.receiver_specific_keys)
      prefix == create_submessage("SecurePrefix", CryptoHeader(kind, m.key_id, m.initialization_vector))
  IN  IF kind = "NONE" THEN Ok([ variant |-> "Unencoded", submessage |-> plain_rtps_submessage ])
      ELSE IF kind \in GmacKinds
      THEN Ok([ variant |-> "Encoded", prefix |-> prefix, submessage |-> plain_rtps_submessage,
                postfix |-> create_submessage("SecurePostfix", gmac) ])
      ELSE Ok([ variant |-> "Encoded", prefix |-> prefix, submessage |-> gcm[1],
                postfix |-> create_submessage("SecurePostfix", gcm[2]) ])

\* What decode_submessage and decode_rtps_message do alike: the key material
\* is got by the header and compared with it, and the receiver-specific MAC
\* looked for.  Gives the materials and the MAC, or the error.
decode_materials(crypto_header, crypto_footer, kind, receiver_specific) ==
  LET k == session_decode_crypto_materials(kind, "PayloadAndMetadata", crypto_header.initialization_vector, receiver_specific)
      key_and_mac == find_receiver_specific_mac(k.receiver_specific_key, crypto_footer.receiver_specific_macs)
  IN  IF crypto_header.transformation_key_id # k.key_id
      THEN SecurityError("The key IDs do not match")
      ELSE IF crypto_header.transformation_kind # k.transformation_kind
      THEN SecurityError("The transformation_kind do not match")
      ELSE IF ~key_and_mac.ok THEN key_and_mac
      ELSE Ok([ key |-> k, receiver_specific_key_and_mac |-> key_and_mac.value ])

\* CryptographicBuiltin::decode_submessage of (SecurePrefix, Submessage,
\* SecurePostfix).
decode_submessage(prefix, encoded_submessage, postfix, kind, receiver_specific) ==
  LET crypto_header == prefix.body.element
      crypto_footer == postfix.body.element
      d == decode_materials(crypto_header, crypto_footer, kind, receiver_specific)
      iv == crypto_header.initialization_vector
      gmac == decode_submessage_gmac(d.value.key.session_key, iv, encoded_submessage, crypto_footer.common_mac, d.value.receiver_specific_key_and_mac)
  IN  IF ~d.ok THEN d
      ELSE IF kind = "NONE" THEN Ok(encoded_submessage.body)
      ELSE IF kind \in GmacKinds
      THEN (IF gmac.ok THEN Ok(encoded_submessage.body) ELSE gmac)
      ELSE decode_submessage_gcm(d.value.key.session_key, iv, encoded_submessage, crypto_footer.common_mac, d.value.receiver_specific_key_and_mac)

\* decode_datawriter_submessage and decode_datareader_submessage: the
\* decoded body has to be of the class of the sender.
decode_endpoint_submessage(class, encoded, kind, receiver_specific) ==
  LET decoded == decode_submessage(encoded.prefix, encoded.submessage, encoded.postfix, kind, receiver_specific)
  IN  IF ~decoded.ok THEN decoded
      ELSE IF decoded.value.class = class THEN decoded
      ELSE SecurityError("Decode result was not of the expected class")

\* The CryptoTransform is used once: an input is drawn, encoded, and what was
\* encoded is decoded by a receiver that holds the sender's key material.
CryptoUnchanged == UNCHANGED << discoveryVars, eventLoopVars, reactorVars, constructionVars, findTopicVars, channelVars, runtimeVars >>

EncodeSerializedPayload ==
  /\ codec.op = "payload"
  /\ codec.encoded = None
  /\ codec' = [codec EXCEPT !.encoded = Some(encode_serialized_payload(codec.plain, codec.key))]
  /\ UNCHANGED << crypto, preprocessed >>
  /\ CryptoUnchanged

DecodeSerializedPayload ==
  /\ codec.op = "payload"
  /\ codec.encoded # None /\ codec.decoded = None
  /\ codec' = [codec EXCEPT !.decoded = Some(decode_serialized_payload(Unwrap(codec.encoded).value, codec.key))]
  /\ UNCHANGED << crypto, preprocessed >>
  /\ CryptoUnchanged

\* encode_datawriter_submessage and encode_datareader_submessage.
EncodeEndpointSubmessage ==
  /\ codec.op = "submessage"
  /\ codec.encoded = None
  /\ codec' = [codec EXCEPT !.encoded = Some(encode_submessage(codec.plain, codec.key, codec.receiver_specific))]
  /\ UNCHANGED << crypto, preprocessed >>
  /\ CryptoUnchanged

\* decode_datawriter_submessage of what a datawriter sent, and
\* decode_datareader_submessage of what a datareader sent.
DecodeEndpointSubmessage ==
  /\ codec.op = "submessage"
  /\ codec.encoded # None /\ codec.decoded = None
  /\ Unwrap(codec.encoded).value.variant = "Encoded"
  /\ codec' = [codec EXCEPT !.decoded = Some(decode_endpoint_submessage(codec.plain.body.class, Unwrap(codec.encoded).value, codec.key, codec.receiver_specific))]
  /\ UNCHANGED << crypto, preprocessed >>
  /\ CryptoUnchanged

PayloadInputs ==
  { [ op |-> "payload", plain |-> p, key |-> k, receiver_specific |-> FALSE, encoded |-> None, decoded |-> None ] : p \in PlainBuffers, k \in BuiltinCryptoTransformationKind }

SubmessageInputs ==
  { [ op |-> "submessage", plain |-> s, key |-> k, receiver_specific |-> r, encoded |-> None, decoded |-> None ] : s \in Submessages, k \in BuiltinCryptoTransformationKind, r \in BOOLEAN }

\* RTPS messages: a header and up to MaxSubmessages submessages.
RtpsHeaders == { "header 1", "header 2" }

Messages ==
  { [ header |-> h, submessages |-> s ] : h \in RtpsHeaders, s \in UNION { [1..n -> Submessages] : n \in 0..MaxSubmessages } }

\* InfoSource::from(header).create_submessage.
InfoSourceSubmessage(header) == [ body |-> [ class |-> "Interpreter", kind |-> "InfoSource", info_source |-> header ] ]

\* encode_rtps_message with the submessage kinds of its first and its last
\* submessage given.
encode_rtps_message_between(message, kind, receiver_specific, prefix_kind, postfix_kind) ==
  LET submessages_with_info_source == << InfoSourceSubmessage(message.header) >> \o message.submessages
      plaintext == write_all_to_vec(submessages_with_info_source)
      m == session_encoding_materials(kind, "PayloadAndMetadata", ReceiversOf(receiver_specific))
      gmac == encode_gmac(m.session_key, m.initialization_vector, plaintext, m.receiver_specific_keys)
      gcm == encode_gcm(m.session_key, m.initialization_vector, plaintext, m.receiver_specific_keys)
      prefix == create_submessage(prefix_kind, CryptoHeader(kind, m.key_id, m.initialization_vector))
  IN  IF kind \in GcmKinds
      THEN Ok([ header |-> message.header,
                submessages |-> << prefix >> \o << gcm[1] >> \o << create_submessage(postfix_kind, gcm[2]) >> ])
      ELSE Ok([ header |-> message.header,
                submessages |-> << prefix >> \o submessages_with_info_source \o << create_submessage(postfix_kind, gmac) >> ])

\* CryptoTransform::encode_rtps_message: the prefix is a SecurePrefix and the
\* postfix a SecurePostfix.
encode_rtps_message(message, kind, receiver_specific) ==
  encode_rtps_message_between(message, kind, receiver_specific, "SecurePrefix", "SecurePostfix")

\* The secured message of a sender that follows DDS Security 9.5.3.3.4.3:
\* between SRTPS_PREFIX and SRTPS_POSTFIX.
SecureRtpsMessage(message, kind, receiver_specific) ==
  encode_rtps_message_between(message, kind, receiver_specific, "SecureRTPSPrefix", "SecureRTPSPostfix")

IsSecurity(submessage, kind) == submessage.body.class = "Security" /\ submessage.body.kind = kind

IsInfoSource(submessage) == submessage.body.class = "Interpreter" /\ submessage.body.kind = "InfoSource"

\* Submessage::read_from_buffer until the buffer is empty.
RECURSIVE read_all_from_buffer(_)
read_all_from_buffer(bytes) ==
  IF bytes = << >> THEN << >> ELSE << Head(bytes).v >> \o read_all_from_buffer(Tail(bytes))

\* decode_rtps_message, the signed content: an InfoSource and the submessages,
\* whose bytes as received are verified.
decode_signed_content(encoded_content, key, iv, common_mac, key_and_mac) ==
  IF encoded_content = << >> \/ ~IsInfoSource(Head(encoded_content))
  THEN SecurityError("Expected the first submessage to be InfoSource.")
  ELSE IF /\ validate_mac(key, iv, write_all_to_vec(encoded_content), common_mac).ok
          /\ receiver_specific_mac_valid(key_and_mac, iv, write_all_to_vec(encoded_content))
       THEN Ok([ submessages |-> Tail(encoded_content), info_source |-> Head(encoded_content).body.info_source ])
       ELSE SecurityError("MAC")

\* decode_rtps_message, the encrypted content: one SecureBody, which is
\* opened and read as an InfoSource and the submessages.
decode_encrypted_content(encoded_content, key, iv, common_mac, key_and_mac) ==
  IF ~(Len(encoded_content) = 1 /\ IsSecurity(encoded_content[1], "SecureBody"))
  THEN SecurityError("Expected only a SecureBody submessage.")
  ELSE LET ciphertext == encoded_content[1].body.element
           plaintext == decrypt(key, iv, ciphertext, common_mac)
           read == read_all_from_buffer(plaintext.value)
       IN  IF ~receiver_specific_mac_valid(key_and_mac, iv, ciphertext) THEN SecurityError("MAC")
           ELSE IF ~plaintext.ok THEN plaintext
           ELSE IF read = << >> \/ ~IsInfoSource(Head(read))
           THEN SecurityError("Expected the first decrypted submessage to be InfoSource.")
           ELSE Ok([ submessages |-> Tail(read), info_source |-> Head(read).body.info_source ])

\* A variant that does not compare the InfoSource with the RTPS header.
decode_rtps_message_any_source(message, kind, receiver_specific) ==
  LET submessages == message.submessages
      n == Len(submessages)
      crypto_header == submessages[1].body.element
      crypto_footer == submessages[n].body.element
      encoded_content == SubSeq(submessages, 2, n - 1)
      d == decode_materials(crypto_header, crypto_footer, kind, receiver_specific)
      iv == crypto_header.initialization_vector
      content ==
        IF kind \in GcmKinds
        THEN decode_encrypted_content(encoded_content, d.value.key.session_key, iv, crypto_footer.common_mac, d.value.receiver_specific_key_and_mac)
        ELSE decode_signed_content(encoded_content, d.value.key.session_key, iv, crypto_footer.common_mac, d.value.receiver_specific_key_and_mac)
  IN  IF ~(n >= 2 /\ IsSecurity(submessages[1], "SecureRTPSPrefix") /\ IsSecurity(submessages[n], "SecureRTPSPostfix"))
      THEN SecurityError("Expected the first submessage to be SecureRTPSPrefix and the last SecureRTPSPostfix")
      ELSE IF ~d.ok THEN d
      ELSE IF ~content.ok THEN content
      ELSE Ok([ header |-> message.header, submessages |-> content.value.submessages ])

\* CryptoTransform::decode_rtps_message by a receiver whose key material
\* for the sending participant is of the given kind.
decode_rtps_message(message, kind, receiver_specific) ==
  LET submessages == message.submessages
      n == Len(submessages)
      crypto_header == submessages[1].body.element
      crypto_footer == submessages[n].body.element
      encoded_content == SubSeq(submessages, 2, n - 1)
      d == decode_materials(crypto_header, crypto_footer, kind, receiver_specific)
      iv == crypto_header.initialization_vector
      content ==
        IF kind \in GcmKinds
        THEN decode_encrypted_content(encoded_content, d.value.key.session_key, iv, crypto_footer.common_mac, d.value.receiver_specific_key_and_mac)
        ELSE decode_signed_content(encoded_content, d.value.key.session_key, iv, crypto_footer.common_mac, d.value.receiver_specific_key_and_mac)
  IN  IF ~(n >= 2 /\ IsSecurity(submessages[1], "SecureRTPSPrefix") /\ IsSecurity(submessages[n], "SecureRTPSPostfix"))
      THEN SecurityError("Expected the first submessage to be SecureRTPSPrefix and the last SecureRTPSPostfix")
      ELSE IF ~d.ok THEN d
      ELSE IF ~content.ok THEN content
      ELSE IF content.value.info_source = message.header
      THEN Ok([ header |-> message.header, submessages |-> content.value.submessages ])
      ELSE SecurityError("The RTPS header did not match the encoded InfoSource")

\* SecurityPlugins::encode_message of a participant whose RTPS messages are
\* protected.
EncodeRtpsMessage ==
  /\ codec.op = "message"
  /\ codec.encoded = None
  /\ codec' = [codec EXCEPT !.encoded = Some(encode_rtps_message(codec.plain, codec.key, codec.receiver_specific))]
  /\ UNCHANGED << crypto, preprocessed >>
  /\ CryptoUnchanged

\* A secured message comes from a participant that brackets it with
\* SRTPS_PREFIX and SRTPS_POSTFIX.
ReceiveSecureRtpsMessage ==
  /\ codec.op = "remote message"
  /\ codec.encoded = None
  /\ codec' = [codec EXCEPT !.encoded = Some(SecureRtpsMessage(codec.plain, codec.key, codec.receiver_specific))]
  /\ UNCHANGED << crypto, preprocessed >>
  /\ CryptoUnchanged

\* SecurityPlugins::decode_rtps_message.
DecodeRtpsMessage ==
  /\ codec.op \in { "message", "remote message" }
  /\ codec.encoded # None /\ codec.decoded = None
  /\ codec' = [codec EXCEPT !.decoded = Some(decode_rtps_message(Unwrap(codec.encoded).value, codec.key, codec.receiver_specific))]
  /\ UNCHANGED << crypto, preprocessed >>
  /\ CryptoUnchanged

MessageInputs ==
  { [ op |-> o, plain |-> m, key |-> k, receiver_specific |-> r, encoded |-> None, decoded |-> None ] : o \in { "message", "remote message" }, m \in Messages, k \in BuiltinCryptoTransformationKind, r \in BOOLEAN }

\* The crypto handles of the remote endpoints of the sending participant;
\* the local endpoint matched to remote endpoint h has handle LocalOf(h).
MaxEndpoints == 2

EndpointHandles == 1..MaxEndpoints

LocalOf(h) == 10 + h

PrefixKeyIds == { 1, 2 }

PrefixTransformationKinds == { "AES128_GMAC", "AES128_GCM", "invalid" }

\* A function with a part of the domain, as a HashMap.
PartialFunctions(keys, values) == UNION { [d -> values] : d \in SUBSET keys }

\* The tables after any registering of remote endpoints and setting of their
\* tokens: the sending participant is unknown, or has endpoints, each with
\* its matched local endpoint and some with key material.
CryptoStates ==
  { [ participant_to_endpoint_info |-> None, decode_key_materials |-> << >>, matched_local_endpoint |-> << >> ] }
  \cup
  { [ participant_to_endpoint_info |-> Some({ [ crypto_handle |-> h, kind |-> kinds[h] ] : h \in DOMAIN kinds }), decode_key_materials |-> materials, matched_local_endpoint |-> [ h \in DOMAIN kinds |-> LocalOf(h) ] ] : kinds \in PartialFunctions(EndpointHandles, { "DataWriter", "DataReader" }), materials \in PartialFunctions(EndpointHandles, [ transformation_kind : { "AES128_GMAC", "AES128_GCM" }, sender_key_id : PrefixKeyIds ]) }

SecurePrefixes == [ transformation_kind : PrefixTransformationKinds, transformation_key_id : PrefixKeyIds ]

\* The loop of preprocess_secure_submessage over the endpoints that are
\* still to be looked at; gives the pairs of both kinds, or the error.
RECURSIVE matching_handle_pairs(_, _, _, _)
matching_handle_pairs(c, prefix, endpoints, pairs) ==
  IF endpoints = {} THEN Ok(pairs)
  ELSE LET info == CHOOSE e \in endpoints : TRUE
           h == info.crypto_handle
           matches == /\ h \in DOMAIN c.decode_key_materials
                      /\ prefix.transformation_kind = c.decode_key_materials[h].transformation_kind
                      /\ prefix.transformation_key_id = c.decode_key_materials[h].sender_key_id
           pair == << h, c.matched_local_endpoint[h] >>
       IN  IF ~matches THEN matching_handle_pairs(c, prefix, endpoints \ {info}, pairs)
           ELSE IF h \notin DOMAIN c.matched_local_endpoint
           THEN SecurityError("The local endpoint matched to the remote endpoint crypto handle is missing.")
           ELSE IF info.kind = "DataWriter"
           THEN matching_handle_pairs(c, prefix, endpoints \ {info}, [pairs EXCEPT !.datawriter = @ \cup {pair}])
           ELSE matching_handle_pairs(c, prefix, endpoints \ {info}, [pairs EXCEPT !.datareader = @ \cup {pair}])

\* A variant of the last match that takes a submessage matching both kinds
\* for a datawriter submessage.
categorize_writer_first(pairs) ==
  IF pairs.datawriter = {} /\ pairs.datareader = {}
  THEN SecurityError("Could not find matching key materials for any registered endpoint")
  ELSE IF pairs.datawriter # {}
  THEN Ok([ category |-> "DatawriterSubmessage", pairs |-> pairs.datawriter ])
  ELSE Ok([ category |-> "DatareaderSubmessage", pairs |-> pairs.datareader ])

\* The last match of preprocess_secure_submessage.
categorize(pairs) ==
  IF pairs.datawriter = {} /\ pairs.datareader = {}
  THEN SecurityError("Could not find matching key materials for any registered endpoint")
  ELSE IF pairs.datawriter # {} /\ pairs.datareader # {}
  THEN SecurityError("Matching key materials found for both registered datawriters and datareaders")
  ELSE IF pairs.datawriter # {}
  THEN Ok([ category |-> "DatawriterSubmessage", pairs |-> pairs.datawriter ])
  ELSE Ok([ category |-> "DatareaderSubmessage", pairs |-> pairs.datareader ])

\* CryptoTransform::preprocess_secure_submessage.
preprocess_secure_submessage(c, prefix) ==
  LET found == matching_handle_pairs(c, prefix, Unwrap(c.participant_to_endpoint_info), [ datawriter |-> {}, datareader |-> {} ])
  IN  IF prefix.transformation_kind \notin BuiltinCryptoTransformationKind
      THEN SecurityError("Invalid transformation kind")
      ELSE IF c.participant_to_endpoint_info = None
      THEN SecurityError("Could not find registered entities for the sending_participant_crypto_handle")
      ELSE IF ~found.ok THEN found
      ELSE categorize(found.value)

PreprocessSecureSubmessage(prefix) ==
  /\ codec.op = "none"
  /\ preprocessed = None
  /\ preprocessed' = Some([ prefix |-> prefix, result |-> preprocess_secure_submessage(crypto, prefix) ])
  /\ UNCHANGED << codec, crypto >>
  /\ CryptoUnchanged

CryptoTransformInit ==
  /\ DiscoveryNew({})
  /\ EventLoopNew /\ ReactorNew /\ ConstructionNew /\ FindTopicNew /\ ChannelNew("discovery_command") /\ RuntimeNew
  /\ preprocessed = None
  /\ \/ codec \in PayloadInputs \cup SubmessageInputs \cup MessageInputs /\ crypto \in { c \in CryptoStates : c.participant_to_endpoint_info = None }
     \/ CodecNew /\ crypto \in CryptoStates

DoPreprocessSecureSubmessage == \E prefix \in SecurePrefixes : PreprocessSecureSubmessage(prefix)

CryptoTransformNext ==
  \/ EncodeSerializedPayload
  \/ DecodeSerializedPayload
  \/ EncodeEndpointSubmessage
  \/ DecodeEndpointSubmessage
  \/ EncodeRtpsMessage
  \/ ReceiveSecureRtpsMessage
  \/ DecodeRtpsMessage
  \/ DoPreprocessSecureSubmessage

CryptoTransformSpec == CryptoTransformInit /\ [][CryptoTransformNext]_vars

Decoded(op) == codec.op = op /\ codec.decoded # None /\ codec.key \in GmacKinds \cup GcmKinds

\* The decoding succeeded and gave the value.
DecodedIs(value) == Unwrap(codec.decoded).ok /\ Unwrap(codec.decoded).value = value

SubmessageRoundTrip == Decoded("submessage") => DecodedIs(codec.plain.body)

\* C17: a message that was encoded by encode_rtps_message and then decoded
\* by decode_rtps_message is the message.
C17_MessageRoundTrip ==
  (codec.op = "message" /\ codec.decoded # None) => DecodedIs(codec.plain)

\* A message of two submessages was encoded and its decoding failed.
C17_Witness ==
  /\ codec.op = "message"
  /\ Len(codec.plain.submessages) = 2
  /\ codec.decoded # None
  /\ ~Unwrap(codec.decoded).ok

\* What holds of a message that comes between SRTPS_PREFIX and
\* SRTPS_POSTFIX: decode_rtps_message gives the message.
SecureRtpsMessageDecoded ==
  (codec.op = "remote message" /\ codec.decoded # None) => DecodedIs(codec.plain)

\* The pairs (remote endpoint, matched local endpoint) of the endpoints of
\* the given kind whose key material is that of the prefix.
MatchingPairs(kind, prefix) ==
  { << info.crypto_handle, LocalOf(info.crypto_handle) >> : info \in { e \in UNION crypto.participant_to_endpoint_info : /\ e.kind = kind /\ e.crypto_handle \in DOMAIN crypto.decode_key_materials /\ crypto.decode_key_materials[e.crypto_handle] = [ transformation_kind |-> prefix.transformation_kind, sender_key_id |-> prefix.transformation_key_id ] } }

Classified(p, category, pairs) == p.result.ok /\ p.result.value = [ category |-> category, pairs |-> pairs ]

C18_WitnessBoth ==
  \E p \in preprocessed :
    /\ MatchingPairs("DataWriter", p.prefix) # {}
    /\ MatchingPairs("DataReader", p.prefix) # {}
    /\ ~p.result.ok

\* ------------------------------------------------- DP event loop: dispatch

\* Notifications and ACKNACKs sent to the event loop in one run.
MaxInputs == 2

\* GuidPrefix values of the remote participants Discovery tells of.
RemoteGuidPrefixes == { "A", "B" }

\* Topics of the local and the discovered endpoints.
EndpointTopics == { "Square", "Circle" }

\* Reliability asked for or offered by a discovered endpoint.
ReliabilityKinds == { "BestEffort", "Reliable" }

\* writer_id of an ACKNACK: a local writer or a writer nobody has.
AckNackWriterIds == UserWriters \cup { "XTYPES_WRITER" }

\* The argument of a call a handler makes on a writer or reader.
Arg(prefix, entity_id, qos) == [ prefix |-> prefix, entity_id |-> entity_id, qos |-> qos ]

\* The call op(arg) on a local entity, made for the n-th message of a drain.
Call(n, entity, op, arg) == [ n |-> n, entity |-> entity, op |-> op, arg |-> arg ]

DiscoveryNotificationType ==
  [ t : {"ParticipantLost"}, guid_prefix : RemoteGuidPrefixes ]
  \cup [ t : {"ReaderUpdated"}, guid : { GUID(p, "R") : p \in RemoteGuidPrefixes },
         topic_name : EndpointTopics, qos : ReliabilityKinds ]
  \cup [ t : {"ReaderLost"}, guid : { GUID(p, "R") : p \in RemoteGuidPrefixes } ]
  \cup [ t : {"WriterUpdated"}, guid : { GUID(p, "W") : p \in RemoteGuidPrefixes },
         topic_name : EndpointTopics, qos : {"Reliable"} ]
  \cup [ t : {"WriterLost"}, guid : { GUID(p, "W") : p \in RemoteGuidPrefixes } ]
  \cup [ t : {"AssertTopicLiveliness"}, entity_id : { "W1", "XTYPES_WRITER" } ]

AckNacks ==
  [ acknack_sender_prefix : { "A" }, kind : { "ACKNACK", "NACK_FRAG" },
    writer_id : AckNackWriterIds ]

\* A variant that forgets every proxy.
without_any_participant(proxies, guid_prefix) == EmptyMap

\* The proxies of map proxies that are not of participant guid_prefix.
without_participant(proxies, guid_prefix) ==
  [g \in { h \in DOMAIN proxies : h.prefix # guid_prefix } |-> proxies[g]]

\* The writers, readers and call log of the event loop, as the record the
\* handlers transform.
Dispatcher ==
  [ writers |-> local_writers, readers |-> local_readers, calls |-> {} ]

\* DPEventLoop::remote_participant_lost, for the n-th notification of a drain:
\* Writer::participant_lost and Reader::participant_lost drop the proxies of
\* the participant.
remote_participant_lost(el, n, participant_guid_prefix) ==
  [el EXCEPT
     !.writers = [e \in DOMAIN @ |->
                    [@[e] EXCEPT !.readers =
                       without_participant(@, participant_guid_prefix)]],
     !.readers = [e \in DOMAIN @ |->
                    [@[e] EXCEPT !.matched_writers =
                       without_participant(@, participant_guid_prefix)]],
     !.calls = @ \cup { Call(n, e, "participant_lost", Arg(participant_guid_prefix, "", "")) :
                          e \in DOMAIN el.writers \cup DOMAIN el.readers }]

\* A variant that takes every local writer.
writers_of_any_topic(el, drd) == DOMAIN el.writers

\* The local writers remote_reader_discovered updates for drd.
writers_of_topic(el, drd) ==
  { e \in DOMAIN el.writers : drd.topic_name = el.writers[e].topic_name }

\* DPEventLoop::remote_reader_discovered: Writer::update_reader_proxy puts the
\* proxy of the remote reader, with the QoS it requests, in place of any the
\* writer has for that reader.
remote_reader_discovered(el, n, drd) ==
  LET matching == writers_of_topic(el, drd)
  IN [el EXCEPT
        !.writers = [e \in DOMAIN @ |->
                       IF e \in matching
                       THEN [@[e] EXCEPT !.readers = MapInsert(@, drd.guid, drd.qos)]
                       ELSE @[e]],
        !.calls = @ \cup { Call(n, e, "update_reader_proxy",
                                Arg(drd.guid.prefix, drd.guid.entity_id, drd.qos)) :
                             e \in matching }]

\* DPEventLoop::remote_reader_lost
remote_reader_lost(el, n, reader_guid) ==
  [el EXCEPT
     !.writers = [e \in DOMAIN @ |-> [@[e] EXCEPT !.readers = MapRemove(@, reader_guid)]],
     !.calls = @ \cup { Call(n, e, "reader_lost",
                             Arg(reader_guid.prefix, reader_guid.entity_id, "")) :
                          e \in DOMAIN el.writers }]

\* DPEventLoop::remote_writer_discovered
remote_writer_discovered(el, n, dwd) ==
  LET matching == { e \in DOMAIN el.readers : dwd.topic_name = el.readers[e].topic_name }
  IN [el EXCEPT
        !.readers = [e \in DOMAIN @ |->
                       IF e \in matching
                       THEN [@[e] EXCEPT !.matched_writers = MapInsert(@, dwd.guid, dwd.qos)]
                       ELSE @[e]],
        !.calls = @ \cup { Call(n, e, "update_writer_proxy",
                                Arg(dwd.guid.prefix, dwd.guid.entity_id, dwd.qos)) :
                             e \in matching }
                    \cup { Call(n, "ddscache", "add_new_topic", Arg("", dwd.topic_name, dwd.qos)) }]

\* DPEventLoop::remote_writer_lost
remote_writer_lost(el, n, writer_guid) ==
  [el EXCEPT
     !.readers = [e \in DOMAIN @ |->
                    [@[e] EXCEPT !.matched_writers = MapRemove(@, writer_guid)]],
     !.calls = @ \cup { Call(n, e, "remove_writer_proxy",
                             Arg(writer_guid.prefix, writer_guid.entity_id, "")) :
                          e \in DOMAIN el.readers }]

\* One turn of the loop over discovery_update_notification_receiver.  A
\* ParticipantUpdated is the subject of MatchingSpec and not sent here.
handle_discovery_notification(el, n, dnt) ==
  CASE dnt.t = "WriterUpdated" -> remote_writer_discovered(el, n, dnt)
    [] dnt.t = "WriterLost" -> remote_writer_lost(el, n, dnt.guid)
    [] dnt.t = "ReaderUpdated" -> remote_reader_discovered(el, n, dnt)
    [] dnt.t = "ReaderLost" -> remote_reader_lost(el, n, dnt.guid)
    [] dnt.t = "ParticipantLost" -> remote_participant_lost(el, n, dnt.guid_prefix)
    [] dnt.t = "AssertTopicLiveliness" ->
         IF dnt.entity_id \in DOMAIN el.writers
         THEN [el EXCEPT !.calls = @ \cup { Call(n, dnt.entity_id, "handle_heartbeat_tick",
                                                 Arg("", "", "")) }]
         ELSE el

RECURSIVE handle_discovery_notifications(_, _, _)
\* The handler of DISCOVERY_UPDATE_NOTIFICATION_TOKEN from the n-th
\* notification of the drain on, receiver being what try_recv has yet to give.
handle_discovery_notifications(el, receiver, n) ==
  IF receiver = << >> THEN el
  ELSE handle_discovery_notifications(
         handle_discovery_notification(el, n, Head(receiver)), Tail(receiver), n + 1)

\* A variant that takes the ACKNACKs for best-effort writers too.
takes_any_ack_nack(found_writer) == TRUE

\* Whether handle_writer_acknack_action hands an ACKNACK to the writer found.
takes_ack_nack(found_writer) == found_writer.is_reliable

RECURSIVE handle_writer_acknack_action(_, _, _)
\* DPEventLoop::handle_writer_acknack_action from the n-th message of
\* ack_nack_receiver on.
handle_writer_acknack_action(el, receiver, n) ==
  IF receiver = << >> THEN el
  ELSE LET acknack_sender_prefix == Head(receiver).acknack_sender_prefix
           acknack_submessage == Head(receiver)
           arg == Arg(acknack_sender_prefix, acknack_submessage.kind, "")
           done ==
             IF acknack_submessage.writer_id \in DOMAIN el.writers
             THEN IF takes_ack_nack(el.writers[acknack_submessage.writer_id])
                  THEN [el EXCEPT !.calls = @ \cup { Call(n, acknack_submessage.writer_id,
                                                          "handle_ack_nack", arg) }]
                  ELSE el
             ELSE [el EXCEPT !.calls = @ \cup { Call(n, acknack_submessage.writer_id,
                                                     "debug", arg) }]
       IN handle_writer_acknack_action(done, Tail(receiver), n + 1)

\* Messages sent to the event loop so far.
InputsSent == dispatched.handled + Len(discovery_update_notification) + Len(ack_nack)

DispatchUnchanged == UNCHANGED << discoveryVars, eventLoopVars, reactorVars, constructionVars, findTopicVars, channelVars, cryptoVars, reliableVars, buildVars, lockVars, entityVars, deliveryVars >>

\* Discovery sends a notification.
SendDiscoveryNotification(dnt) ==
  /\ InputsSent < MaxInputs
  /\ discovery_update_notification' = Append(discovery_update_notification, dnt)
  /\ UNCHANGED << local_writers, local_readers, ack_nack, dispatched >>
  /\ DispatchUnchanged

\* The message receiver forwards an ACKNACK or NACK_FRAG addressed to a writer.
ForwardAckNack(acknack) ==
  /\ InputsSent < MaxInputs
  /\ ack_nack' = Append(ack_nack, acknack)
  /\ UNCHANGED << local_writers, local_readers, discovery_update_notification, dispatched >>
  /\ DispatchUnchanged

\* The event of DISCOVERY_UPDATE_NOTIFICATION_TOKEN is handled.
HandleDiscoveryUpdateNotification ==
  /\ discovery_update_notification # << >>
  /\ LET el == handle_discovery_notifications(Dispatcher, discovery_update_notification, 1)
     IN /\ local_writers' = el.writers
        /\ local_readers' = el.readers
        /\ dispatched' = [ calls |-> el.calls,
                           handled |-> dispatched.handled + Len(discovery_update_notification) ]
  /\ discovery_update_notification' = << >>
  /\ UNCHANGED ack_nack
  /\ DispatchUnchanged

\* The event of ACKNACK_MESSAGE_TO_LOCAL_WRITER_TOKEN is handled.
HandleWriterAcknackAction ==
  /\ ack_nack # << >>
  /\ LET el == handle_writer_acknack_action(Dispatcher, ack_nack, 1)
     IN /\ local_writers' = el.writers
        /\ local_readers' = el.readers
        /\ dispatched' = [ calls |-> el.calls, handled |-> dispatched.handled + Len(ack_nack) ]
  /\ ack_nack' = << >>
  /\ UNCHANGED discovery_update_notification
  /\ DispatchUnchanged

\* Two local writers, the first reliable and the second best-effort, and two
\* local readers; the second writer is on either topic.
DispatchInit ==
  /\ DiscoveryNew({})
  /\ EventLoopNew /\ ReactorNew /\ ConstructionNew /\ FindTopicNew
  /\ ChannelNew("discovery_command") /\ CodecNew /\ CryptoNew
  /\ ReliableNew /\ BuildNew /\ LockNew /\ EntityNew /\ DeliveryNew
  /\ \E topic_name \in EndpointTopics :
       local_writers =
         [e \in UserWriters |->
            [ topic_name |-> IF e = "W1" THEN "Square" ELSE topic_name,
              is_reliable |-> e = "W1", readers |-> EmptyMap ]]
  /\ local_readers =
       [e \in UserReaders |->
          [ topic_name |-> IF e = "R1" THEN "Square" ELSE "Circle",
            matched_writers |-> EmptyMap ]]
  /\ discovery_update_notification = << >>
  /\ ack_nack = << >>
  /\ dispatched = [ calls |-> {}, handled |-> 0 ]

DoSendDiscoveryNotification == \E dnt \in DiscoveryNotificationType : SendDiscoveryNotification(dnt)

DoForwardAckNack == \E acknack \in AckNacks : ForwardAckNack(acknack)

DispatchNext ==
  \/ DoSendDiscoveryNotification
  \/ DoForwardAckNack
  \/ HandleDiscoveryUpdateNotification
  \/ HandleWriterAcknackAction

DispatchSpec == DispatchInit /\ [][DispatchNext]_vars

\* The step is the handling of a drain that ends with notification dnt.
DrainEndsWith(dnt) ==
  /\ discovery_update_notification # << >>
  /\ discovery_update_notification' = << >>
  /\ discovery_update_notification[Len(discovery_update_notification)] = dnt

\* The event loop as the notifications before the last of the drain leave it.
BeforeLast ==
  handle_discovery_notifications(
    Dispatcher, SubSeq(discovery_update_notification, 1, Len(discovery_update_notification) - 1), 1)

\* Map proxies has the proxies of map earlier that are not of guid_prefix,
\* each as it was, and no other.
OthersKept(proxies, earlier, guid_prefix) ==
  /\ DOMAIN proxies = { g \in DOMAIN earlier : g.prefix # guid_prefix }
  /\ \A g \in DOMAIN proxies : proxies[g] = earlier[g]

\* C21: once the event loop has processed ParticipantLost{guid_prefix},
\* participant_lost(guid_prefix) has been called on every local writer and
\* every local reader, none of them has a reader or writer proxy of that
\* participant, and their proxies of other participants are as they were.
C21_ParticipantLost ==
  [][\A p \in RemoteGuidPrefixes :
       DrainEndsWith([ t |-> "ParticipantLost", guid_prefix |-> p ]) =>
         /\ \A e \in UserWriters \cup UserReaders :
              Call(Len(discovery_update_notification), e, "participant_lost", Arg(p, "", ""))
                \in dispatched'.calls
         /\ \A e \in UserWriters :
              OthersKept(local_writers'[e].readers, BeforeLast.writers[e].readers, p)
         /\ \A e \in UserReaders :
              OthersKept(local_readers'[e].matched_writers,
                         BeforeLast.readers[e].matched_writers, p)]_vars

\* A reader of participant A was matched with writer W1 by the first
\* notification of a drain and the participant lost by the second.
C21_Witness ==
  /\ Call(2, "W1", "participant_lost", Arg("A", "", "")) \in dispatched.calls
  /\ Call(1, "W1", "update_reader_proxy", Arg("A", "R", "Reliable")) \in dispatched.calls
  /\ DOMAIN local_writers["W1"].readers = {}

\* Writer W1 keeps the proxy of B's reader when A is lost.
C21_WitnessOther ==
  /\ Call(1, "W1", "participant_lost", Arg("A", "", "")) \in dispatched.calls
  /\ DOMAIN local_writers["W1"].readers = { GUID("B", "R") }

\* C22: ReaderUpdated has update_reader_proxy called, with the QoS the
\* discovered reader requests, on exactly the local writers whose topic name
\* is that of the discovered reader; every other writer and every reader is
\* left as it was.
C22_ReaderUpdated ==
  [][\A dnt \in DiscoveryNotificationType :
       (dnt.t = "ReaderUpdated" /\ DrainEndsWith(dnt)) =>
         LET n == Len(discovery_update_notification)
             updated == { c.entity : c \in { d \in dispatched'.calls : d.n = n } }
         IN /\ updated = { e \in UserWriters : local_writers[e].topic_name = dnt.topic_name }
            /\ \A c \in dispatched'.calls :
                 c.n = n => /\ c.op = "update_reader_proxy"
                            /\ c.arg = Arg(dnt.guid.prefix, dnt.guid.entity_id, dnt.qos)
            /\ \A e \in updated :
                 local_writers'[e] =
                   [BeforeLast.writers[e] EXCEPT !.readers = MapInsert(@, dnt.guid, dnt.qos)]
            /\ \A e \in UserWriters \ updated : local_writers'[e] = BeforeLast.writers[e]
            /\ local_readers' = BeforeLast.readers]_vars

\* The second writer is on another topic than the first, and a reader
\* discovered on the first writer's topic was given to the first alone.
C22_Witness ==
  /\ local_writers["W2"].topic_name = "Circle"
  /\ dispatched.calls = { Call(1, "W1", "update_reader_proxy", Arg("A", "R", "BestEffort")) }
  /\ local_writers["W1"].readers = MapInsert(EmptyMap, GUID("A", "R"), "BestEffort")
  /\ local_writers["W2"].readers = EmptyMap

\* C23: of the ACKNACKs and NACK_FRAGs queued, handle_writer_acknack_action
\* hands to handle_ack_nack exactly those whose writer_id names a local
\* writer that is reliable, each to that writer; one for a best-effort or an
\* unknown writer is passed over and the ones queued behind it are still
\* processed.
C23_AckNack ==
  [][(ack_nack # << >> /\ ack_nack' = << >>) =>
       /\ { c \in dispatched'.calls : c.op = "handle_ack_nack" } =
            { Call(i, ack_nack[i].writer_id, "handle_ack_nack",
                   Arg(ack_nack[i].acknack_sender_prefix, ack_nack[i].kind, "")) :
                i \in { j \in 1..Len(ack_nack) :
                          /\ ack_nack[j].writer_id \in DOMAIN local_writers
                          /\ local_writers[ack_nack[j].writer_id].is_reliable } }
       /\ local_writers' = local_writers
       /\ local_readers' = local_readers]_vars

\* An ACKNACK for a writer nobody has was dropped and the NACK_FRAG queued
\* behind it handed to the reliable writer.
C23_Witness ==
  /\ Call(1, "XTYPES_WRITER", "debug", Arg("A", "ACKNACK", "")) \in dispatched.calls
  /\ Call(2, "W1", "handle_ack_nack", Arg("A", "NACK_FRAG", "")) \in dispatched.calls

\* An ACKNACK for the best-effort writer was ignored and the one behind it
\* handed to the reliable writer.
C23_WitnessBestEffort ==
  /\ dispatched.calls = { Call(2, "W1", "handle_ack_nack", Arg("A", "ACKNACK", "")) }
  /\ dispatched.handled = 2
  /\ ~ local_writers["W2"].is_reliable

\* ------------------------------------ DP event loop: timer and disconnection

\* PREEMPTIVE_ACKNACK_PERIOD has passed since set_timeout: the timer sets its
\* registration readable, which queues one readiness event.
AcknackTimerExpires ==
  /\ ~event_loop.returned
  /\ event_loop.acknack_timer = "armed"
  /\ CommitReactor(
       [Reactor EXCEPT
          !.event_loop.acknack_timer = "expired",
          !.readiness = IF "DPEV_ACKNACK_TIMER_TOKEN" \in SeqRange(@)
                        THEN @ ELSE Append(@, "DPEV_ACKNACK_TIMER_TOKEN")])
  /\ UNCHANGED << events, app, discovery_command >>

\* The sender of the stop channel goes away with nothing sent on it: the
\* drop of the last sender sets the channel readable.
AbandonParticipant ==
  /\ app.participant = "alive"
  /\ CommitReactor(
       [Reactor EXCEPT
          !.readiness = IF Len(channel["stop_poll"]) = 0 /\ "STOP_POLL_TOKEN" \notin SeqRange(@)
                        THEN Append(@, "STOP_POLL_TOKEN") ELSE @])
  /\ app' = [app EXCEPT !.participant = "abandoned"]
  /\ UNCHANGED << events, discovery_command >>

LoopNext ==
  \/ Poll \/ HandleEvent \/ AcknackTimerExpires
  \/ DropParticipantDisc \/ DropParticipantInner \/ JoinEventLoop
  \/ AbandonParticipant

\* The event-loop thread keeps running, time passes, and the thread that
\* drops the participant goes on to the join.
LoopFairness ==
  /\ WF_vars(Poll)
  /\ WF_vars(HandleEvent)
  /\ WF_vars(AcknackTimerExpires)
  /\ WF_vars(DropParticipantInner)
  /\ WF_vars(JoinEventLoop)

LoopSpec == ReactorInit /\ [][LoopNext]_vars /\ LoopFairness

\* C24: while the event loop runs, the handling of an expiry of the
\* pre-emptive ACKNACK timer calls send_preemptive_acknacks once and sets the
\* timer again, nothing else calls it, and so it is called again and again
\* until the loop returns.
C24_PreemptiveAcknacks ==
  /\ [][event_loop'.preemptive_acknacks # event_loop.preemptive_acknacks =>
          /\ event_loop.acknack_timer = "expired"
          /\ event_loop'.acknack_timer = "armed"
          /\ event_loop'.preemptive_acknacks
               = (event_loop.preemptive_acknacks + 1) % AcknackRounds]_vars
  /\ \A k \in 0..(AcknackRounds - 1) :
       []<>(event_loop.returned \/ event_loop.preemptive_acknacks = k)
  /\ (event_loop.acknack_timer = "expired")
       ~> (event_loop.returned \/ event_loop.acknack_timer = "armed")

\* The count of calls has wrapped: the timer has expired and been set again
\* AcknackRounds times, and the loop still runs.
C24_Witness ==
  /\ event_loop.preemptive_acknacks = 0
  /\ event_loop.acknack_timer = "expired"
  /\ ~event_loop.returned
  /\ app.participant = "disc_dropped"

\* C30: when the stop channel is disconnected, its sender dropped with no
\* Stop sent, event_loop returns.
C30_DisconnectedReturns == (app.participant = "abandoned") ~> event_loop.returned

\* The loop has met Err(Disconnected) on the stop channel and has not
\* returned.
C30_Witness ==
  /\ app.participant = "abandoned"
  /\ event_loop.stop_poll_error = "Disconnected"
  /\ ~event_loop.returned

\* -------------------------------------- RtpsWriter and RtpsReader, Reliable

\* Sequence numbers a writer publishes in one run.
MaxSN == 3

\* Sequence numbers an ACKNACK bitmap spans from its base on (256 on the
\* wire).
MaxBitmap == 2

SetMin(S) == CHOOSE x \in S : \A y \in S : x <= y

\* A submessage in flight, v being its content.
Submessage(t, v) == [ t |-> t, v |-> v ]

InFlight(t) == { m \in wire : m.t = t }

\* firstAvailableSN of the writer's HistoryCache.
FirstAvailable(writer) ==
  IF writer.history = {} THEN writer.last + 1 ELSE SetMin(writer.history)

\* HistoryCache of a KeepLast(depth) writer after sample sn is put in: the
\* oldest sample goes when the depth is full.
history_insert(writer, sn) ==
  IF Cardinality(writer.history) < writer.depth
  THEN writer.history \cup {sn}
  ELSE (writer.history \ { SetMin(writer.history) }) \cup {sn}

\* Reader, on DATA n from the writer.
handle_data(proxy, n) ==
  IF n \in proxy.received THEN proxy
  ELSE [proxy EXCEPT !.received = @ \cup {n}, !.missing = @ \ {n}]

\* A variant that takes the first sequence number of the HEARTBEAT for the
\* base.
acknack_base_first(missing, first_sn, last_sn) == first_sn

\* base of the ACKNACK that answers HEARTBEAT(first_sn, last_sn).
acknack_base(missing, first_sn, last_sn) ==
  IF missing = {} THEN last_sn + 1 ELSE SetMin(missing)

\* A variant that leaves missing as it is.
handle_heartbeat_keeping_missing(proxy, hb) ==
  [proxy EXCEPT !.last_heartbeat_count = hb.count, !.ack_count = @ + 1]

\* Reader, on HEARTBEAT from the writer, when its count is new: missing is
\* brought up to date.
handle_heartbeat(proxy, hb) ==
  [proxy EXCEPT
     !.last_heartbeat_count = hb.count,
     !.missing = { n \in @ \cup ((hb.first_sn..hb.last_sn) \ (proxy.received \cup proxy.irrelevant)) :
                     n >= hb.first_sn },
     !.ack_count = @ + 1]

\* The ACKNACK the reader sends after handle_heartbeat.
acknack_of(proxy, hb) ==
  LET base == acknack_base(proxy.missing, hb.first_sn, hb.last_sn)
  IN Submessage("ACKNACK",
                [ base |-> base,
                  bitmap |-> { n \in proxy.missing : n < base + MaxBitmap },
                  count |-> proxy.ack_count ])

\* Reader, on GAP from the writer.
handle_gap(proxy, gap_list) ==
  [proxy EXCEPT !.irrelevant = @ \cup gap_list, !.missing = @ \ gap_list]

\* Writer, on ACKNACK from the reader, when its count is new.
handle_ack_nack(writer, acknack) ==
  [writer EXCEPT
     !.last_ack_count = acknack.count,
     !.highest_acked_sn = acknack.base - 1,
     !.requested_changes = @ \cup acknack.bitmap]

ReliableUnchanged == UNCHANGED << discoveryVars, eventLoopVars, reactorVars, constructionVars, findTopicVars, channelVars, cryptoVars, dispatchVars, buildVars, lockVars, entityVars, deliveryVars >>

\* write(sample): the next sequence number, the sample into the
\* HistoryCache, a DATA to the reader.  The transport may lose that DATA.
WriterWrite(lost) ==
  /\ ~rtps_writer.stopped
  /\ rtps_writer.last < MaxSN
  /\ LET sn == rtps_writer.last + 1
     IN /\ rtps_writer' = [rtps_writer EXCEPT !.last = sn,
                                              !.history = history_insert(rtps_writer, sn)]
        /\ IF lost
           THEN /\ transport' = [transport EXCEPT !.suppressed = @ \cup {sn}]
                /\ UNCHANGED wire
           ELSE /\ wire' = wire \cup { Submessage("DATA", [ sn |-> sn, again |-> FALSE ]) }
                /\ UNCHANGED transport
  /\ UNCHANGED writer_proxy
  /\ ReliableUnchanged

\* The application publishes no more.
WriterStops ==
  /\ ~rtps_writer.stopped
  /\ rtps_writer' = [rtps_writer EXCEPT !.stopped = TRUE]
  /\ UNCHANGED << writer_proxy, wire, transport >>
  /\ ReliableUnchanged

\* The heartbeat timer, when there is unacked data.  The period is longer
\* than the answer to the last HEARTBEAT takes.
HeartbeatTimer ==
  /\ rtps_writer.highest_acked_sn < rtps_writer.last
  /\ rtps_writer.requested_changes = {}
  /\ \A m \in wire : m.t = "DATA" /\ ~m.v.again
  /\ rtps_writer' = [rtps_writer EXCEPT !.heartbeat_count = @ + 1]
  /\ wire' = wire \cup
       { Submessage("HEARTBEAT",
                    [ first_sn |-> FirstAvailable(rtps_writer), last_sn |-> rtps_writer.last,
                      count |-> rtps_writer.heartbeat_count + 1 ]) }
  /\ UNCHANGED << writer_proxy, transport >>
  /\ ReliableUnchanged

\* The nack-response timer: DATA for the requested sequence numbers still in
\* the cache, a GAP for the others.
NackResponseTimer ==
  /\ rtps_writer.requested_changes # {}
  /\ LET requested == rtps_writer.requested_changes
         cached == requested \cap rtps_writer.history
     IN wire' = wire
          \cup { Submessage("DATA", [ sn |-> sn, again |-> TRUE ]) : sn \in cached }
          \cup (IF requested \ cached = {} THEN {}
                ELSE { Submessage("GAP", [ gap_list |-> requested \ cached ]) })
  /\ rtps_writer' = [rtps_writer EXCEPT !.requested_changes = {}]
  /\ UNCHANGED << writer_proxy, transport >>
  /\ ReliableUnchanged

ReceiveData ==
  \E m \in InFlight("DATA") :
    /\ wire' = wire \ {m}
    /\ writer_proxy' = handle_data(writer_proxy, m.v.sn)
    /\ UNCHANGED << rtps_writer, transport >>
    /\ ReliableUnchanged

\* The HEARTBEAT has no FINAL flag: the reader answers every one it takes.
ReceiveHeartbeat ==
  \E m \in InFlight("HEARTBEAT") :
    /\ IF m.v.count <= writer_proxy.last_heartbeat_count
       THEN /\ wire' = wire \ {m}
            /\ UNCHANGED writer_proxy
       ELSE LET proxy == handle_heartbeat(writer_proxy, m.v)
            IN /\ writer_proxy' = proxy
               /\ wire' = (wire \ {m}) \cup { acknack_of(proxy, m.v) }
    /\ UNCHANGED << rtps_writer, transport >>
    /\ ReliableUnchanged

ReceiveGap ==
  \E m \in InFlight("GAP") :
    /\ wire' = wire \ {m}
    /\ writer_proxy' = handle_gap(writer_proxy, m.v.gap_list)
    /\ UNCHANGED << rtps_writer, transport >>
    /\ ReliableUnchanged

ReceiveAckNack ==
  \E m \in InFlight("ACKNACK") :
    /\ wire' = wire \ {m}
    /\ rtps_writer' = IF m.v.count <= rtps_writer.last_ack_count
                      THEN rtps_writer
                      ELSE handle_ack_nack(rtps_writer, m.v)
    /\ UNCHANGED << writer_proxy, transport >>
    /\ ReliableUnchanged

\* A matched pair of a KeepLast(depth) writer and a reader.
ReliableInit ==
  /\ DiscoveryNew({})
  /\ EventLoopNew /\ ReactorNew /\ ConstructionNew /\ FindTopicNew
  /\ ChannelNew("discovery_command") /\ CodecNew /\ CryptoNew
  /\ DispatchNew /\ BuildNew /\ LockNew /\ EntityNew /\ DeliveryNew
  /\ \E depth \in 1..MaxSN :
       rtps_writer = [ depth |-> depth, history |-> {}, last |-> 0, heartbeat_count |-> 0,
                       last_ack_count |-> 0, highest_acked_sn |-> 0,
                       requested_changes |-> {}, stopped |-> FALSE ]
  /\ writer_proxy = [ received |-> {}, missing |-> {}, irrelevant |-> {},
                      last_heartbeat_count |-> 0, ack_count |-> 0 ]
  /\ wire = {}
  /\ transport = [ suppressed |-> {} ]

DoWriterWrite == \E lost \in BOOLEAN : WriterWrite(lost)

ReliableNext ==
  \/ DoWriterWrite \/ WriterStops \/ HeartbeatTimer \/ NackResponseTimer
  \/ ReceiveData \/ ReceiveHeartbeat \/ ReceiveGap \/ ReceiveAckNack

\* The timers fire and what is on the wire arrives.
ReliableFairness ==
  /\ WF_vars(HeartbeatTimer)
  /\ WF_vars(NackResponseTimer)
  /\ WF_vars(ReceiveData)
  /\ WF_vars(ReceiveHeartbeat)
  /\ WF_vars(ReceiveGap)
  /\ WF_vars(ReceiveAckNack)

ReliableSpec == ReliableInit /\ [][ReliableNext]_vars /\ ReliableFairness

Published == 1..rtps_writer.last

\* The writer publishes no more, nothing is in flight or requested, and the
\* reader has acknowledged all.
Quiescent ==
  /\ rtps_writer.stopped
  /\ wire = {}
  /\ rtps_writer.requested_changes = {}
  /\ rtps_writer.highest_acked_sn = rtps_writer.last

StillAvailable == { n \in Published : n >= FirstAvailable(rtps_writer) }

\* C25 as stated: after the writer stops the pair comes to rest with the
\* reader having received exactly the published sequence numbers from
\* firstAvailable on.
C25_ReceivedEqualsAvailable ==
  rtps_writer.stopped ~> (Quiescent /\ writer_proxy.received = StillAvailable)

\* C25: after the writer stops the pair comes to rest, and then the reader
\* has received every published sequence number from firstAvailable on and
\* none that was not published; the ones it was sent before they left the
\* writer's cache it has as well.
C25_ReceivedAllAvailable ==
  rtps_writer.stopped ~>
    (/\ Quiescent
     /\ StillAvailable \subseteq writer_proxy.received
     /\ writer_proxy.received \subseteq Published
     /\ (rtps_writer.depth >= rtps_writer.last => writer_proxy.received = Published))

\* The DATA of sequence number 2 of 1..MaxSN was lost, the reader asked for
\* it by an ACKNACK of base 2, and at rest it has all of 1..MaxSN.
C25_Witness ==
  /\ Quiescent
  /\ transport.suppressed = {2}
  /\ rtps_writer.last = MaxSN
  /\ rtps_writer.depth = MaxSN
  /\ writer_proxy.received = 1..MaxSN

\* At rest the reader holds a sequence number that has left the writer's
\* cache.
C25_WitnessEvicted ==
  /\ Quiescent
  /\ writer_proxy.received # StillAvailable

\* C26: every ACKNACK the reader sends in answer to a
\* HEARTBEAT(firstSN, lastSN) has for base the smallest sequence number of
\* missing, or lastSN + 1 when missing is empty, and in its bitmap only
\* sequence numbers of missing.
C26_AckNackBase ==
  [][\A m \in wire' \ wire :
       m.t = "ACKNACK" =>
         \E hb \in InFlight("HEARTBEAT") \ wire' :
           /\ m.v.base = IF writer_proxy'.missing = {}
                         THEN hb.v.last_sn + 1
                         ELSE SetMin(writer_proxy'.missing)
           /\ m.v.bitmap \subseteq writer_proxy'.missing]_vars

\* An ACKNACK is in flight that asks for sequence number 2 alone, 1 and 3
\* being received.
C26_Witness ==
  /\ Submessage("ACKNACK", [ base |-> 2, bitmap |-> {2}, count |-> 1 ]) \in wire
  /\ writer_proxy.received = {1, 3}
  /\ writer_proxy.missing = {2}

\* An ACKNACK is in flight that acknowledges all: base is lastSN + 1.
C26_WitnessNoneMissing ==
  /\ \E m \in InFlight("ACKNACK") : m.v.base = rtps_writer.last + 1 /\ m.v.bitmap = {}
  /\ writer_proxy.missing = {}
  /\ rtps_writer.last > 0

\* ------------------------------------------ DomainParticipantBuilder::build

\* What the plugins answer to the calls build makes for the local
\* participant; PendingHandshakeMessage stands for the outcomes of
\* validate_local_identity other than Ok.
PluginAnswers ==
  [ validate_local_identity : { "Ok", "Err", "PendingHandshakeMessage" },
    validate_local_permissions : { "Ok", "Err" },
    check_create_participant : { "Ok", "Err" },
    get_participant_sec_attributes : { "Ok", "Err" },
    register_local_participant : { "Ok", "Err" } ]

\* A variant that registers the participant with the crypto plugin whatever
\* the access control says.
security_checks_lenient(b, k) ==
  IF k.validate_local_identity # "Ok"
  THEN [b EXCEPT !.result = "NotAllowedBySecurity"]
  ELSE IF k.get_participant_sec_attributes # "Ok" \/ k.register_local_participant # "Ok"
  THEN [b EXCEPT !.handles = {"identity"}, !.result = "Internal"]
  ELSE [b EXCEPT !.handles = {"identity", "participant_crypto"}]

\* The security part of build: validate_local_identity,
\* validate_local_permissions, check_create_participant, then
\* get_participant_sec_attributes and register_local_participant, each of
\* SecurityPlugins, which keeps the handle a plugin returns.
security_checks(b, k) ==
  IF k.validate_local_identity # "Ok"
  THEN [b EXCEPT !.result = "NotAllowedBySecurity"]
  ELSE IF k.validate_local_permissions # "Ok"
  THEN [b EXCEPT !.handles = {"identity"}, !.result = "NotAllowedBySecurity"]
  ELSE IF k.check_create_participant # "Ok"
  THEN [b EXCEPT !.handles = {"identity", "permissions"},
                 !.result = "NotAllowedBySecurity"]
  ELSE IF k.get_participant_sec_attributes # "Ok" \/ k.register_local_participant # "Ok"
  THEN [b EXCEPT !.handles = {"identity", "permissions"}, !.result = "Internal"]
  ELSE [b EXCEPT !.handles = {"identity", "permissions", "participant_crypto"}]

BuildUnchanged == UNCHANGED << discoveryVars, eventLoopVars, reactorVars, constructionVars, findTopicVars, channelVars, cryptoVars, dispatchVars, reliableVars, lockVars, entityVars, deliveryVars >>

\* build, up to DomainParticipantDisc::new: with security plugins the checks
\* of the local participant, and a return at the first that fails.
BuildSecurity ==
  /\ build.pc = "new"
  /\ LET b == IF build.plugins = None THEN build
              ELSE security_checks(build, Unwrap(build.plugins))
     IN build' = [b EXCEPT !.pc = IF b.result = "" THEN "construct" ELSE "done"]
  /\ BuildUnchanged

\* DomainParticipantDisc::new and in it DomainParticipantInner::new: the
\* sockets are bound and the event loop thread is started, or an error ends
\* build.
BuildConstruct(ok) ==
  /\ build.pc = "construct"
  /\ build' = IF ok
              THEN [build EXCEPT !.pc = "spawn", !.sockets_bound = TRUE,
                                 !.threads_started = {"event loop"}]
              ELSE [build EXCEPT !.pc = "done", !.result = "Err"]
  /\ BuildUnchanged

\* The discovery thread is started.
BuildSpawnDiscovery ==
  /\ build.pc = "spawn"
  /\ build' = [build EXCEPT !.pc = "wait", !.threads_started = @ \cup {"discovery"}]
  /\ BuildUnchanged

\* discovery_started_receiver.recv_timeout(10 s)
BuildDiscoveryStarted(started) ==
  /\ build.pc = "wait"
  /\ build' = [build EXCEPT !.pc = "done",
                            !.result = IF started THEN "Ok" ELSE "Poisoned"]
  /\ BuildUnchanged

\* A builder with or without security plugins.
BuildInit ==
  /\ DiscoveryNew({})
  /\ EventLoopNew /\ ReactorNew /\ ConstructionNew /\ FindTopicNew
  /\ ChannelNew("discovery_command") /\ CodecNew /\ CryptoNew
  /\ DispatchNew /\ ReliableNew /\ LockNew /\ EntityNew /\ DeliveryNew
  /\ \E plugins \in { None } \cup { Some(k) : k \in PluginAnswers } :
       build = [ pc |-> "new", plugins |-> plugins, result |-> "", handles |-> {},
                 sockets_bound |-> FALSE, threads_started |-> {} ]

DoBuildConstruct == \E ok \in BOOLEAN : BuildConstruct(ok)

DoBuildDiscoveryStarted == \E started \in BOOLEAN : BuildDiscoveryStarted(started)

BuildNext == BuildSecurity \/ DoBuildConstruct \/ BuildSpawnDiscovery \/ DoBuildDiscoveryStarted

BuildSpec == BuildInit /\ [][BuildNext]_vars

\* build with security plugins whose answers are k has gone through the
\* security part.
SecurityChecked(k) == build.plugins = Some(k) /\ build.pc # "new"

NothingStarted == ~build.sockets_bound /\ build.threads_started = {}

\* C27: with security enabled build returns NotAllowedBySecurity when
\* validate_local_identity, validate_local_permissions or
\* check_create_participant fails and Internal when the registering of the
\* participant with the crypto plugin fails, each with no socket bound and
\* no thread started; when none fails it goes on to the construction.
C27_SecurityErrors ==
  \A k \in PluginAnswers :
    SecurityChecked(k) =>
      LET refused == \/ k.validate_local_identity # "Ok"
                     \/ k.validate_local_permissions # "Ok"
                     \/ k.check_create_participant # "Ok"
          unregistered == \/ k.get_participant_sec_attributes # "Ok"
                          \/ k.register_local_participant # "Ok"
      IN /\ refused => build.result = "NotAllowedBySecurity" /\ NothingStarted
         /\ (~refused /\ unregistered) => build.result = "Internal" /\ NothingStarted
         /\ (~refused /\ ~unregistered) =>
              build.result \notin { "NotAllowedBySecurity", "Internal" }

\* build has returned NotAllowedBySecurity because check_create_participant
\* failed after the two validations.
C27_Witness ==
  /\ build.pc = "done"
  /\ build.result = "NotAllowedBySecurity"
  /\ build.handles = {"identity", "permissions"}
  /\ NothingStarted

\* build has returned Internal because the crypto plugin did not register
\* the participant.
C27_WitnessInternal ==
  /\ build.pc = "done"
  /\ build.result = "Internal"
  /\ \E k \in PluginAnswers :
       build.plugins = Some(k) /\ k.register_local_participant = "Err"
         /\ k.get_participant_sec_attributes = "Ok"
  /\ NothingStarted

\* ------------------------------------------ the start of the key exchange

\* Discovery takes StartKeyExchangeWithRemoteParticipant from the command
\* channel and calls start_key_exchange_with_remote.
TakeStartKeyExchange(l, k) ==
  /\ discovery_command[l] # << >>
  /\ Head(discovery_command[l]).command = "StartKeyExchangeWithRemoteParticipant"
  /\ LET r == Head(discovery_command[l]).participant_guid_prefix
         w == start_key_exchange_with_remote(l, World(l), r, k)
     IN /\ handshake_states' = [handshake_states EXCEPT ![l] = w.handshake_states]
        /\ stored_authentication_messages' =
             [stored_authentication_messages EXCEPT ![l] = w.stored_authentication_messages]
        /\ next_seqnum' = [next_seqnum EXCEPT ![l] = w.next_seqnum]
        /\ authentication_status' =
             [authentication_status EXCEPT ![l] = w.authentication_status]
        /\ participant_proxies' = [participant_proxies EXCEPT ![l] = w.participant_proxies]
        /\ discovery_updated' = [discovery_updated EXCEPT ![l] = w.discovery_updated]
        /\ last' = [ op |-> "start_key_exchange_with_remote", local |-> l, remote |-> r,
                     info |-> [ k |-> k ], writes |-> w.writes, calls |-> w.calls,
                     notified |-> << >> ]
  /\ discovery_command' = [discovery_command EXCEPT ![l] = Tail(@)]
  /\ UNCHANGED << local_dp_sec_attributes, available_builtin_endpoints, net, writers,
                  available_readers >>
  /\ UNCHANGED << reactorVars, restVars >>

\* A participant with its built-in endpoints and a remote in DiscoveryDB, of
\* any authentication status, whose ParticipantUpdated is in the channel; the
\* remote announces all built-in endpoints but perhaps the volatile-secure
\* ones.
KeyExchangeStartInit ==
  /\ handshake_states = [l \in Participants |-> EmptyMap]
  /\ stored_authentication_messages = [l \in Participants |-> EmptyMap]
  /\ next_seqnum = [l \in Participants |-> IF l \in SpecLocals THEN 2 ELSE 1]
  /\ local_dp_sec_attributes \in
       { f \in [Participants -> ParticipantSecurityAttributes] :
           \A q \in Participants \ SpecLocals :
             f[q] = [ allow_unauthenticated_participants |-> FALSE,
                      is_access_protected |-> FALSE ] }
  /\ \E status \in AuthenticationStatus :
       authentication_status =
         [l \in Participants |->
            IF l \in SpecLocals THEN [r \in RemotesOf(l) |-> status] ELSE EmptyMap]
  /\ participant_proxies =
       [l \in Participants |-> IF l \in SpecLocals THEN RemotesOf(l) ELSE {}]
  /\ available_builtin_endpoints \in
       [Participants ->
          { BuiltinEndpoints \ unannounced : unannounced \in SUBSET VolatileSecureEndpoints }]
  /\ \A l \in SpecLocals : available_builtin_endpoints[l] = BuiltinEndpoints
  /\ discovery_updated =
       [l \in Participants |->
          IF l \in SpecLocals THEN << CHOOSE r \in RemotesOf(l) : TRUE >> ELSE << >>]
  /\ net = {}
  /\ last = NoLast
  /\ writers =
       [l \in Participants |->
          IF l \in SpecLocals
          THEN [e \in BuiltinWriterIds |-> [ readers |-> {} ]]
          ELSE EmptyMap]
  /\ available_readers =
       [l \in Participants |->
          IF l \in SpecLocals
          THEN [e \in BuiltinReaderIds |-> [ matched_writers |-> {} ]]
          ELSE EmptyMap]
  /\ discovery_command = [l \in Participants |-> << >>]
  /\ ReactorNew
  /\ RestNew

DoTakeStartKeyExchange ==
  \E l \in SpecLocals : \E r \in RemotesOf(l) :
    \E k \in KeyExchangeResults(available_builtin_endpoints[r]) : TakeStartKeyExchange(l, k)

KeyExchangeStartNext == DoUpdateParticipant \/ DoTakeStartKeyExchange

KeyExchangeStartSpec == KeyExchangeStartInit /\ [][KeyExchangeStartNext]_vars

\* The remote's volatile-secure reader is a matched reader of the local
\* key-exchange writer.
VolatileReaderMatched(l, r) ==
  GUID(r, P2P_BUILTIN_PARTICIPANT_VOLATILE_SECURE_READER)
    \in writers[l][P2P_BUILTIN_PARTICIPANT_VOLATILE_SECURE_WRITER].readers

\* The event loop sends StartKeyExchangeWithRemoteParticipant only from
\* update_participant, for a remote that DiscoveryDB has as Authenticated.
StartOnlyWhenAuthenticated ==
  [][\A l \in SpecLocals :
       Len(discovery_command'[l]) > Len(discovery_command[l]) =>
         /\ last'.op = "update_participant"
         /\ StatusOf(l, last'.remote) = "Authenticated"
         /\ discovery_command'[l] =
              Append(discovery_command[l],
                     [ command |-> "StartKeyExchangeWithRemoteParticipant",
                       participant_guid_prefix |-> last'.remote ])]_vars

\* C28: the event loop sends StartKeyExchangeWithRemoteParticipant only for
\* an Authenticated remote and after the matching of update_participant, so
\* that whenever start_key_exchange_with_remote has written a crypto-token
\* message for a remote, that remote's volatile-secure reader is a matched
\* reader of the local key-exchange writer.
C28_TokensAfterMatch ==
  (last.op = "start_key_exchange_with_remote" /\ last.writes # << >>) =>
    /\ StatusOf(last.local, last.remote) = "Authenticated"
    /\ VolatileReaderMatched(last.local, last.remote)

\* The key exchange has written crypto tokens to a remote whose
\* volatile-secure reader update_participant had matched.
C28_Witness ==
  /\ last.op = "start_key_exchange_with_remote"
  /\ last.writes # << >>
  /\ VolatileReaderMatched(last.local, last.remote)

\* The key exchange has written crypto tokens for a remote that does not
\* announce a volatile-secure reader and has none matched.
C28_WitnessUnmatched ==
  /\ last.op = "start_key_exchange_with_remote"
  /\ last.writes # << >>
  /\ P2P_BUILTIN_PARTICIPANT_VOLATILE_SECURE_READER
       \notin available_builtin_endpoints[last.remote]
  /\ ~VolatileReaderMatched(last.local, last.remote)

\* ------------------------------- DiscoveryDB lock and the bounded channels

\* discovery_db is Arc<RwLock<DiscoveryDB>>: writer is the thread that holds
\* the write guard, readers the threads that hold a read guard.
LockFreeForWrite == discovery_db.writer = None /\ discovery_db.readers = {}
LockFreeForRead == discovery_db.writer = None

NotificationsFull == backlog.notifications = ChannelCapacity("discovery_updated")
CommandsFull == backlog.commands = ChannelCapacity("discovery_command")

LockUnchanged == UNCHANGED << discoveryVars, eventLoopVars, reactorVars, constructionVars, findTopicVars, channelVars, cryptoVars, dispatchVars, reliableVars, buildVars, entityVars, deliveryVars >>

\* Discovery sends a notification after the write guard of its statement has
\* been dropped; SyncSender::send returns once the channel has room.
NotifyUnlocked ==
  /\ discovery_thread.pc = "idle"
  /\ ~NotificationsFull
  /\ backlog' = [backlog EXCEPT !.notifications = @ + 1]
  /\ UNCHANGED << discovery_db, discovery_thread, dp_event_loop >>
  /\ LockUnchanged

\* update_participant_authentication_status_and_notify_dp:
\* let mut db = discovery_db_write(discovery_db).
DiscoveryLockWrite ==
  /\ discovery_thread.pc \in { "idle", "waiting_write" }
  /\ IF LockFreeForWrite
     THEN /\ discovery_db' = [discovery_db EXCEPT !.writer = Some("discovery_thread")]
          /\ discovery_thread' = [discovery_thread EXCEPT !.pc = "holding_write"]
     ELSE /\ discovery_thread.pc = "idle"
          /\ discovery_thread' = [discovery_thread EXCEPT !.pc = "waiting_write"]
          /\ UNCHANGED discovery_db
  /\ UNCHANGED << dp_event_loop, backlog >>
  /\ LockUnchanged

\* db.update_authentication_status, then send_discovery_notification with db
\* alive: send blocks while the channel is full; db is dropped at the end.
DiscoverySendNotification ==
  /\ discovery_thread.pc \in { "holding_write", "sending" }
  /\ IF NotificationsFull
     THEN /\ discovery_thread.pc = "holding_write"
          /\ discovery_thread' = [discovery_thread EXCEPT !.pc = "sending"]
          /\ UNCHANGED << discovery_db, backlog >>
     ELSE /\ backlog' = [backlog EXCEPT !.notifications = @ + 1]
          /\ discovery_db' = [discovery_db EXCEPT !.writer = None]
          /\ discovery_thread' = [discovery_thread EXCEPT !.pc = "idle"]
  /\ UNCHANGED dp_event_loop
  /\ LockUnchanged

\* Discovery takes a command from the command channel.
DiscoveryTakeCommand ==
  /\ discovery_thread.pc = "idle"
  /\ backlog.commands > 0
  /\ backlog' = [backlog EXCEPT !.commands = @ - 1]
  /\ UNCHANGED << discovery_db, discovery_thread, dp_event_loop >>
  /\ LockUnchanged

\* while let Ok(dnt) = discovery_update_notification_receiver.try_recv():
\* ParticipantUpdated calls update_participant, the others take no lock here.
LoopTryRecv(participant_updated) ==
  /\ dp_event_loop.pc = "idle"
  /\ backlog.notifications > 0
  /\ backlog' = [backlog EXCEPT !.notifications = @ - 1]
  /\ dp_event_loop' =
       [dp_event_loop EXCEPT !.pc = IF participant_updated THEN "update_participant" ELSE "idle"]
  /\ UNCHANGED << discovery_db, discovery_thread >>
  /\ LockUnchanged

\* update_participant: let db = discovery_db_read(&self.discovery_db).
LoopLockRead ==
  /\ dp_event_loop.pc \in { "update_participant", "waiting_read" }
  /\ IF LockFreeForRead
     THEN /\ discovery_db' = [discovery_db EXCEPT !.readers = @ \cup { "dp_event_loop" }]
          /\ dp_event_loop' = [dp_event_loop EXCEPT !.pc = "holding_read"]
     ELSE /\ dp_event_loop.pc = "update_participant"
          /\ dp_event_loop' = [dp_event_loop EXCEPT !.pc = "waiting_read"]
          /\ UNCHANGED discovery_db
  /\ UNCHANGED << discovery_thread, backlog >>
  /\ LockUnchanged

\* update_participant up to its end with db alive: for an Authenticated
\* remote discovery_command_sender.send, which blocks while the channel is
\* full; db is dropped at the end.
LoopFinishUpdate(authenticated) ==
  /\ dp_event_loop.pc \in { "holding_read", "sending" }
  /\ dp_event_loop.pc = "sending" => authenticated
  /\ IF authenticated /\ CommandsFull
     THEN /\ dp_event_loop.pc = "holding_read"
          /\ dp_event_loop' = [dp_event_loop EXCEPT !.pc = "sending"]
          /\ UNCHANGED << discovery_db, backlog >>
     ELSE /\ backlog' = [backlog EXCEPT !.commands = IF authenticated THEN @ + 1 ELSE @]
          /\ discovery_db' = [discovery_db EXCEPT !.readers = @ \ { "dp_event_loop" }]
          /\ dp_event_loop' = [dp_event_loop EXCEPT !.pc = "idle"]
  /\ UNCHANGED discovery_thread
  /\ LockUnchanged

LockInit ==
  /\ DiscoveryNew({})
  /\ EventLoopNew /\ ReactorNew /\ ConstructionNew /\ FindTopicNew
  /\ ChannelNew("discovery_command") /\ CodecNew /\ CryptoNew
  /\ DispatchNew /\ ReliableNew /\ BuildNew
  /\ LockNew /\ EntityNew /\ DeliveryNew

DoLoopTryRecv == \E participant_updated \in BOOLEAN : LoopTryRecv(participant_updated)

DoLoopFinishUpdate == \E authenticated \in BOOLEAN : LoopFinishUpdate(authenticated)

LockNext ==
  \/ NotifyUnlocked
  \/ DiscoveryLockWrite
  \/ DiscoverySendNotification
  \/ DiscoveryTakeCommand
  \/ DoLoopTryRecv
  \/ LoopLockRead
  \/ DoLoopFinishUpdate

LockSpec == LockInit /\ [][LockNext]_vars

\* Discovery is blocked in send on the full notification channel with the
\* write guard; the event loop is blocked in discovery_db_read.
NotificationDeadlock ==
  /\ discovery_thread.pc = "sending"
  /\ discovery_db.writer = Some("discovery_thread")
  /\ NotificationsFull
  /\ dp_event_loop.pc = "waiting_read"

\* The event loop is blocked in send on the full command channel with the read
\* guard; discovery is blocked in discovery_db_write.
CommandDeadlock ==
  /\ dp_event_loop.pc = "sending"
  /\ "dp_event_loop" \in discovery_db.readers
  /\ CommandsFull
  /\ discovery_thread.pc = "waiting_write"

\* The lock is held as RwLock allows and the channels keep to their capacity.
LockTypeOK ==
  /\ discovery_db.writer # None => discovery_db.readers = {}
  /\ discovery_db.writer # None <=> discovery_thread.pc \in { "holding_write", "sending" }
  /\ "dp_event_loop" \in discovery_db.readers <=> dp_event_loop.pc \in { "holding_read", "sending" }
  /\ backlog.notifications \in 0..ChannelCapacity("discovery_updated")
  /\ backlog.commands \in 0..ChannelCapacity("discovery_command")

\* C29: no reachable state has the discovery thread blocked sending on the
\* full notification channel with the DiscoveryDB write lock while the event
\* loop is blocked acquiring the lock, nor the event loop blocked sending
\* StartKeyExchangeWithRemoteParticipant on the full command channel with the
\* read lock while the discovery thread waits for the write lock.
C29_NoMutualBlocking == ~NotificationDeadlock /\ ~CommandDeadlock

\* Both threads are blocked for good around the notification channel.
C29_Witness == NotificationDeadlock /\ ~ENABLED LockNext

\* Both threads are blocked for good around the command channel.
C29_WitnessCommand == CommandDeadlock /\ ~ENABLED LockNext

\* ------------------------------------------------- remotes that are Rejected

\* The remotes the last handler wrote a ParticipantStatelessMessage to.
WrittenTo ==
  { last.writes[i].message.destination_participant_guid.prefix :
      i \in 1..Len(last.writes) }

ReadHandlers == { "participant_data_read", "participant_stateless_message_read" }

\* The last handler read a sample of a remote that was Rejected before it.
ReadFromRejected ==
  /\ last.op \in ReadHandlers
  /\ last.info.prior_status = "Rejected"

\* C31: no handshake message is written to a remote that is Rejected: neither
\* the periodic resend writes to a remote whose status is Rejected, nor does
\* the read of an SPDP sample or of a stateless message of a remote that was
\* Rejected before the read write anything.
C31_NothingToRejected ==
  /\ last.op = "resend_unanswered_authentication_messages" =>
       \A r \in WrittenTo : StatusOf(last.local, r) # "Rejected"
  /\ ReadFromRejected => last.writes = << >>

\* A handshake message of a Rejected remote was read and nothing was written.
C31_Witness ==
  /\ ReadFromRejected
  /\ last.op = "participant_stateless_message_read"
  /\ last.info.addressed
  /\ last.writes = << >>

\* The stored final message was written again to a Rejected remote.
C31_WitnessFinalResent ==
  /\ ReadFromRejected
  /\ last.info.prior_state = "CompletedWithFinalMessageSent"
  /\ last.writes # << >>
  /\ last.remote \in WrittenTo

\* The periodic resend writes nothing to a Rejected remote, and the read of an
\* SPDP sample of a Rejected remote writes nothing.
ResendSparesRejected ==
  /\ last.op = "resend_unanswered_authentication_messages" =>
       \A r \in WrittenTo : StatusOf(last.local, r) # "Rejected"
  /\ (ReadFromRejected /\ last.op = "participant_data_read") => last.writes = << >>

\* C32: Rejected is absorbing: no read of an SPDP sample or of a stateless
\* message and no resend changes the status of a remote that is Rejected, and
\* participant_data_read answers Deny for a remote that is Rejected.
C32_RejectedAbsorbing ==
  [][/\ \A l \in SpecLocals : \A r \in RemotesOf(l) :
          StatusOf(l, r) = "Rejected" =>
            authentication_status'[l][r] = "Rejected"
     /\ (/\ last'.op = "participant_data_read"
         /\ StatusOf(last'.local, last'.remote) = "Rejected")
          => last'.info.permission = "Deny"]_vars

\* An SPDP sample of a Rejected remote was read: Deny, and still Rejected.
C32_Witness ==
  /\ ReadFromRejected
  /\ last.op = "participant_data_read"
  /\ last.info.permission = "Deny"
  /\ StatusOf(last.local, last.remote) = "Rejected"

\* A handshake message of a Rejected remote in sub-state
\* CompletedWithFinalMessageSent was read, and the remote is still Rejected.
C32_WitnessStateless ==
  /\ ReadFromRejected
  /\ last.op = "participant_stateless_message_read"
  /\ last.info.prior_state = "CompletedWithFinalMessageSent"
  /\ StatusOf(last.local, last.remote) = "Rejected"

\* ------------------------------------------------------------ SPDP dispose

\* Discovery hands the dispose of remote r to participant_dispose_read and,
\* on Allow, processes it: the entry of r leaves DiscoveryDB.
DisposeRead(l, r) ==
  LET permission == participant_dispose_read(World(l), r)
  IN /\ participant_proxies' =
          [participant_proxies EXCEPT
             ![l] = IF permission = "Allow" THEN @ \ {r} ELSE @]
     /\ last' = [ op |-> "participant_dispose_read", local |-> l, remote |-> r,
                  info |-> [ prior_status |-> StatusOf(l, r),
                             prior_state |-> StateOf(l, r),
                             permission |-> permission ],
                  writes |-> << >>, calls |-> {}, notified |-> << >> ]
     /\ UNCHANGED << handshake_states, stored_authentication_messages, next_seqnum,
                     authentication_status, discovery_updated, net,
                     local_dp_sec_attributes, available_builtin_endpoints >>
     /\ UNCHANGED outsideDiscoveryVars

DoDisposeRead == \E l \in SpecLocals : \E r \in RemotesOf(l) : DisposeRead(l, r)

DisposeNext == Next \/ DoDisposeRead

DisposeSpec == Init /\ [][DisposeNext]_vars

\* The statuses with which a dispose is left to normal discovery.
DisposableStatus == { "None", "Unauthenticated" }

\* C33: participant_dispose_read answers Allow exactly for a participant
\* with no recorded status or with status Unauthenticated; a dispose of an
\* Authenticating, Authenticated or Rejected participant is denied and
\* changes neither DiscoveryDB nor any handshake state.
C33_Dispose ==
  [][last'.op = "participant_dispose_read" =>
       LET status == StatusOf(last'.local, last'.remote)
       IN /\ last'.info.permission = "Allow" <=> status \in DisposableStatus
          /\ last'.info.permission \in { "Allow", "Deny" }
          /\ status \notin DisposableStatus =>
               UNCHANGED << handshake_states, stored_authentication_messages,
                            authentication_status, participant_proxies,
                            discovery_updated, next_seqnum >>]_vars

\* The dispose of an Authenticated remote was denied.
C33_Witness ==
  /\ last.op = "participant_dispose_read"
  /\ last.info.prior_status = "Authenticated"
  /\ last.info.permission = "Deny"
  /\ last.remote \in participant_proxies[last.local]

\* The dispose of an Unauthenticated remote was left to normal discovery.
C33_WitnessAllowed ==
  /\ last.op = "participant_dispose_read"
  /\ last.info.prior_status = "Unauthenticated"
  /\ last.info.permission = "Allow"

\* ---------------------------------------------- participant_data_read, answer

\* The statuses a remote keeps when another SPDP sample of it is read.
SettledStatus == { "Authenticated", "Unauthenticated", "Rejected" }

\* C34: after participant_data_read the remote has a status in DiscoveryDB,
\* the answer is Allow exactly when that status is Unauthenticated or
\* Authenticating and Deny when it is Authenticated or Rejected; for a remote
\* that was Authenticated, Unauthenticated or Rejected the status is as it
\* was, no message is written and no notification is sent.
C34_DataRead ==
  last.op = "participant_data_read" =>
    LET status == StatusOf(last.local, last.remote)
    IN /\ status \in AuthenticationStatus
       /\ last.info.permission =
            IF status \in { "Unauthenticated", "Authenticating" } THEN "Allow" ELSE "Deny"
       /\ last.info.prior_status \in SettledStatus =>
            /\ status = last.info.prior_status
            /\ last.writes = << >>
            /\ last.notified = << >>
            /\ last.calls = {}

\* The sample of an Authenticated remote was read: Deny, nothing sent.
C34_Witness ==
  /\ last.op = "participant_data_read"
  /\ last.info.prior_status = "Authenticated"
  /\ StatusOf(last.local, last.remote) = "Authenticated"
  /\ last.info.permission = "Deny"

\* The first sample of a remote started the handshake: Allow, request written.
C34_WitnessStarted ==
  /\ last.op = "participant_data_read"
  /\ last.info.prior_status = "None"
  /\ StatusOf(last.local, last.remote) = "Authenticating"
  /\ last.info.permission = "Allow"
  /\ last.writes # << >>

\* ------------------------------------------- the final message, sent again

\* r is in sub-state CompletedWithFinalMessageSent with l.
FinalMessageSent(l, r) == StateOf(l, r) = "CompletedWithFinalMessageSent"

\* The step is the read of a handshake message that r sent to l.
HandshakeMessageRead(l, r) ==
  /\ last'.op = "participant_stateless_message_read"
  /\ last'.local = l
  /\ last'.remote = r
  /\ last'.info.addressed

\* C35: while a remote is in sub-state CompletedWithFinalMessageSent the final
\* message stays stored; the periodic resend neither writes it nor counts nor
\* discards it; every handshake message read from that remote makes the
\* stored final message be written exactly once and changes neither the
\* sub-state, the stored message, the status nor sends a notification.
C35_FinalMessage ==
  [][\A l \in SpecLocals : \A r \in RemotesOf(l) :
       FinalMessageSent(l, r) =>
         LET stored == stored_authentication_messages[l] IN
         /\ r \in DOMAIN stored
         /\ ResendTickOf(l) =>
              /\ r \notin { last'.writes[i].message.destination_participant_guid.prefix :
                              i \in 1..Len(last'.writes) }
              /\ r \in DOMAIN stored_authentication_messages'[l]
              /\ stored_authentication_messages'[l][r] = stored[r]
              /\ handshake_states'[l][r] = "CompletedWithFinalMessageSent"
         /\ HandshakeMessageRead(l, r) =>
              /\ Len(last'.writes) = 1
              /\ last'.writes[1].message = stored[r].message
              /\ last'.notified = << >>
              /\ handshake_states'[l] = handshake_states[l]
              /\ stored_authentication_messages'[l] = stored
              /\ authentication_status'[l] = authentication_status[l]
              /\ discovery_updated'[l] = discovery_updated[l]]_vars

\* A handshake message of a remote in CompletedWithFinalMessageSent was read
\* and the final message written again.
C35_Witness ==
  /\ last.op = "participant_stateless_message_read"
  /\ last.info.addressed
  /\ last.info.prior_state = "CompletedWithFinalMessageSent"
  /\ StatusOf(last.local, last.remote) = "Authenticated"
  /\ Len(last.writes) = 1

\* The resend timer fired with a final message stored and wrote nothing.
C35_WitnessResend ==
  /\ last.op = "resend_unanswered_authentication_messages"
  /\ \E r \in RemotesOf(last.local) :
       /\ FinalMessageSent(last.local, r)
       /\ r \in DOMAIN stored_authentication_messages[last.local]
  /\ last.writes = << >>

\* ------------------------------------------------------ Authenticated remotes

CompletedStates ==
  { "CompletedWithFinalMessageSent", "CompletedWithFinalMessageReceived" }

\* Every Authenticated remote has completed the handshake.
AuthenticatedCompleted ==
  \A l \in SpecLocals : \A r \in RemotesOf(l) :
    StatusOf(l, r) = "Authenticated" => StateOf(l, r) \in CompletedStates

\* The step sets the status of r to Authenticated.
BecomesAuthenticated(l, r) ==
  /\ StatusOf(l, r) # "Authenticated"
  /\ r \in DOMAIN authentication_status'[l]
  /\ authentication_status'[l][r] = "Authenticated"

\* C40: a remote whose status is Authenticated is in sub-state
\* CompletedWithFinalMessageSent or CompletedWithFinalMessageReceived, and the
\* step that set the status validated its permissions with success and, in an
\* access-protected domain, had check_remote_participant succeed.
C40_Authenticated ==
  /\ []AuthenticatedCompleted
  /\ [][\A l \in SpecLocals : \A r \in RemotesOf(l) :
          BecomesAuthenticated(l, r) =>
            /\ last'.op = "participant_stateless_message_read"
            /\ last'.local = l /\ last'.remote = r
            /\ r \in participant_proxies[l]
            /\ "validate_remote_permissions" \in last'.calls
            /\ last'.info.p.validate_remote_permissions = "Ok"
            /\ local_dp_sec_attributes[l].is_access_protected =>
                 /\ "check_remote_participant" \in last'.calls
                 /\ last'.info.p.check_remote_participant = "Ok"
            /\ handshake_states'[l][r] \in CompletedStates]_vars

\* A remote of an access-protected domain is Authenticated, the handshake
\* completed by the final message received.
C40_Witness ==
  \E l \in SpecLocals : \E r \in RemotesOf(l) :
    /\ StatusOf(l, r) = "Authenticated"
    /\ StateOf(l, r) = "CompletedWithFinalMessageReceived"
    /\ local_dp_sec_attributes[l].is_access_protected
    /\ "check_remote_participant" \in last.calls

\* ------------------------------------------ decoding of what was received

\* What a receiver is given need not come from an honest sender.  A received
\* unit is described by the kind and the key id in its CryptoHeader, its
\* content, and whether the common MAC of its CryptoFooter is the MAC of the
\* content under the sender's session key or a forged one.
ForgedMac == compute_mac([ master_sender_key |-> "forged", session_id |-> 1, scope |-> "none" ], InitializationVector, << >>)

OtherKeyId == SenderKeyId + 1

\* The content as it is on the wire under a header of the given kind.
WireContent(header_kind, scope, plaintext) ==
  IF header_kind \in GcmKinds
  THEN encrypt(session_key(scope), InitializationVector, plaintext).ciphertext
  ELSE plaintext

CommonMac(genuine, scope, plaintext) ==
  IF genuine THEN compute_mac(session_key(scope), InitializationVector, plaintext) ELSE ForgedMac

\* The footer of a message or submessage, with the receiver-specific MACs
\* the receiver expects.
WireFooter(genuine, header_kind, plaintext, receiver_specific) ==
  [ common_mac |-> CommonMac(genuine, "PayloadAndMetadata", plaintext),
    receiver_specific_macs |->
      receiver_specific_macs(ReceiversOf(receiver_specific), InitializationVector,
                             IF header_kind \in GcmKinds
                             THEN WireContent(header_kind, "PayloadAndMetadata", plaintext)
                             ELSE plaintext) ]

ReceivedPayload(plain_buffer, header_kind, key_id, genuine) ==
  BuiltinCryptoHeader(header_kind, key_id, InitializationVector)
    \o WireContent(header_kind, "PayloadOnly", plain_buffer)
    \o only_common_mac(CommonMac(genuine, "PayloadOnly", plain_buffer))

ReceivedSubmessage(submessage, header_kind, key_id, genuine, receiver_specific) ==
  [ variant |-> "Encoded",
    prefix |-> create_submessage("SecurePrefix", CryptoHeader(header_kind, key_id, InitializationVector)),
    submessage |->
      IF header_kind \in GcmKinds
      THEN create_submessage("SecureBody", WireContent(header_kind, "PayloadAndMetadata", write_to_vec(submessage)))
      ELSE submessage,
    postfix |-> create_submessage("SecurePostfix",
                                  WireFooter(genuine, header_kind, write_to_vec(submessage), receiver_specific)) ]

\* The protected content of a message: the InfoSource of info_source, or none
\* for "absent", and the submessages.
ProtectedSubmessages(message, info_source) ==
  (IF info_source = "absent" THEN << >> ELSE << InfoSourceSubmessage(info_source) >>)
    \o message.submessages

ReceivedMessage(message, info_source, brackets, header_kind, key_id, genuine) ==
  LET protected == ProtectedSubmessages(message, info_source)
      plaintext == write_all_to_vec(protected)
  IN [ header |-> message.header,
       submessages |->
         << create_submessage(brackets[1], CryptoHeader(header_kind, key_id, InitializationVector)) >>
           \o (IF header_kind \in GcmKinds
               THEN << create_submessage("SecureBody", WireContent(header_kind, "PayloadAndMetadata", plaintext)) >>
               ELSE protected)
           \o << create_submessage(brackets[2], WireFooter(genuine, header_kind, plaintext, FALSE)) >> ]

Brackets ==
  { << "SecureRTPSPrefix", "SecureRTPSPostfix" >>, << "SecurePrefix", "SecurePostfix" >>,
    << "SecureRTPSPrefix", "SecurePostfix" >>, << "SecurePrefix", "SecureRTPSPostfix" >> }

InfoSources == RtpsHeaders \cup { "absent" }

\* What was received: codec.plain describes it, codec.encoded is the wire
\* form, codec.key the kind of the receiver's key material for the sender.
Received(op, plain, kind, receiver_specific, as_received) ==
  [ op |-> op, plain |-> plain, key |-> kind, receiver_specific |-> receiver_specific,
    encoded |-> Some(Ok(as_received)), decoded |-> None ]

Description(content, header_kind, key_id, genuine, info_source, brackets) ==
  [ content |-> content, header_kind |-> header_kind, key_id |-> key_id, genuine |-> genuine,
    info_source |-> info_source, brackets |-> brackets ]

ReceivedPayloads ==
  { Received("received payload",
             Description(p, hk, id, g, "absent", << "none", "none" >>), k, FALSE,
             ReceivedPayload(p, hk, id, g)) :
      p \in PlainBuffers, hk \in BuiltinCryptoTransformationKind, id \in { SenderKeyId, OtherKeyId },
      g \in BOOLEAN, k \in BuiltinCryptoTransformationKind }

ReceivedSubmessages ==
  { Received("received submessage",
             Description(s, hk, SenderKeyId, g, "absent", << "SecurePrefix", "SecurePostfix" >>), k, r,
             ReceivedSubmessage(s, hk, SenderKeyId, g, r)) :
      s \in Submessages, hk \in BuiltinCryptoTransformationKind,
      g \in BOOLEAN, k \in BuiltinCryptoTransformationKind, r \in BOOLEAN }

ReceivedMessages ==
  { Received("received message",
             Description(m, hk, SenderKeyId, g, i, b), k, FALSE,
             ReceivedMessage(m, i, b, hk, SenderKeyId, g)) :
      m \in Messages, i \in InfoSources, b \in Brackets,
      hk \in { "NONE", "AES128_GMAC", "AES128_GCM" }, g \in BOOLEAN,
      k \in { "NONE", "AES128_GMAC", "AES128_GCM" } }

\* decode_serialized_payload of a received payload.
DecodeReceivedPayload ==
  /\ codec.op = "received payload"
  /\ codec.decoded = None
  /\ codec' = [codec EXCEPT !.decoded = Some(decode_serialized_payload(Unwrap(codec.encoded).value, codec.key))]
  /\ UNCHANGED << crypto, preprocessed >>
  /\ CryptoUnchanged

\* decode_datawriter_submessage and decode_datareader_submessage of a received
\* (SecurePrefix, Submessage, SecurePostfix).
DecodeReceivedSubmessage ==
  /\ codec.op = "received submessage"
  /\ codec.decoded = None
  /\ codec' = [codec EXCEPT !.decoded = Some(decode_endpoint_submessage(codec.plain.content.body.class, Unwrap(codec.encoded).value, codec.key, codec.receiver_specific))]
  /\ UNCHANGED << crypto, preprocessed >>
  /\ CryptoUnchanged

\* decode_rtps_message of a received message.
DecodeReceivedMessage ==
  /\ codec.op = "received message"
  /\ codec.decoded = None
  /\ codec' = [codec EXCEPT !.decoded = Some(decode_rtps_message(Unwrap(codec.encoded).value, codec.key, codec.receiver_specific))]
  /\ UNCHANGED << crypto, preprocessed >>
  /\ CryptoUnchanged

ReceptionInit ==
  /\ DiscoveryNew({})
  /\ EventLoopNew /\ ReactorNew /\ ConstructionNew /\ FindTopicNew /\ ChannelNew("discovery_command") /\ RuntimeNew
  /\ CryptoNew
  /\ codec \in ReceivedPayloads \cup ReceivedSubmessages \cup ReceivedMessages

ReceptionNext == DecodeReceivedPayload \/ DecodeReceivedSubmessage \/ DecodeReceivedMessage

ReceptionSpec == ReceptionInit /\ [][ReceptionNext]_vars

ReceivedOps == { "received payload", "received submessage", "received message" }

\* A decode operation gave content to its caller.
ContentReturned ==
  /\ codec.op \in ReceivedOps
  /\ codec.decoded # None
  /\ Unwrap(codec.decoded).ok

\* C36: no decode operation returns content unless the common MAC of the
\* crypto footer is the MAC of the content under the sender's session key,
\* for every transformation kind of the key material, NONE included; when it
\* is not, the result is an error.
C36_MacVerified == ContentReturned => codec.plain.genuine

\* A payload with a forged MAC was received by a receiver whose key material
\* is of kind NONE, and refused.
C36_Witness ==
  /\ codec.op = "received payload"
  /\ codec.key = "NONE" /\ codec.plain.header_kind = "NONE"
  /\ codec.plain.key_id = SenderKeyId
  /\ ~codec.plain.genuine
  /\ codec.decoded # None
  /\ ~Unwrap(codec.decoded).ok

\* A submessage with a forged MAC was returned to the caller.
C36_WitnessForgedSubmessage ==
  /\ ContentReturned
  /\ codec.op = "received submessage"
  /\ ~codec.plain.genuine

\* What holds of payloads and messages alone.
PayloadAndMessageMacVerified ==
  (ContentReturned /\ codec.op # "received submessage") => codec.plain.genuine

\* C37: decode_rtps_message returns a message only if the first submessage is
\* a secure RTPS prefix, the last a secure RTPS postfix and the InfoSource of
\* the protected content is that of the RTPS header, and then the message is
\* the header with the protected submessages; otherwise it returns an error.
C37_MessageChecked ==
  (codec.op = "received message" /\ codec.decoded # None) =>
    LET decoded == Unwrap(codec.decoded)
    IN /\ decoded.ok =>
            /\ codec.plain.brackets = << "SecureRTPSPrefix", "SecureRTPSPostfix" >>
            /\ codec.plain.info_source = codec.plain.content.header
            /\ decoded.value = codec.plain.content
       /\ ~decoded.ok => decoded.value \in STRING

\* A well-made message was decoded and returned.
C37_Witness ==
  /\ ContentReturned
  /\ codec.op = "received message"
  /\ Len(codec.plain.content.submessages) = 2
  /\ codec.plain.header_kind = "AES128_GCM"

\* A message whose InfoSource is of another header, with a genuine MAC, was
\* refused.
C37_WitnessOtherSource ==
  /\ codec.op = "received message"
  /\ codec.decoded # None
  /\ ~Unwrap(codec.decoded).ok
  /\ codec.plain.genuine
  /\ codec.plain.header_kind = codec.key
  /\ codec.plain.brackets = << "SecureRTPSPrefix", "SecureRTPSPostfix" >>
  /\ codec.plain.info_source \in RtpsHeaders \ { codec.plain.content.header }

\* ------------------------------------------------------------ new_entity_id

\* The calls of new_entity_id followed in one behaviour.
MaxNewEntityIds == 4

\* The largest value of a byte.
ByteMax == 2^8 - 1

\* The bytes of the u32 that to_be_bytes gives, most significant first; the
\* last three make the entity key.
CounterBytes == << "_goldilocks", "papa_byte", "mama_byte", "baby_byte" >>

\* Entity kinds of readers and writers an application makes.
EntityKinds == { "WRITER_WITH_KEY_USER_DEFINED", "READER_WITH_KEY_USER_DEFINED" }

RECURSIVE wrapping_add_one(_, _)
\* AtomicU32::fetch_add(1, Relaxed), the new value: one is added to the byte
\* at place i of the big-endian bytes, the carry goes to the byte before it,
\* and the carry out of the first byte is lost.
wrapping_add_one(bytes, i) ==
  IF i = 0 THEN bytes
  ELSE IF bytes[i] < ByteMax
       THEN [bytes EXCEPT ![i] = @ + 1]
       ELSE wrapping_add_one([bytes EXCEPT ![i] = 0], i - 1)

\* EntityId::new([papa_byte, mama_byte, baby_byte], entity_kind) of the bytes
\* fetched.
new_entity_id(fetched, entity_kind) ==
  [ entity_key |-> SubSeq(fetched, 2, Len(CounterBytes)), entity_kind |-> entity_kind ]

RECURSIVE BytesBelow(_, _, _)
\* a < b for two big-endian byte strings, from byte i on.
BytesBelow(a, b, i) ==
  IF i > Len(a) THEN FALSE
  ELSE IF a[i] # b[i] THEN a[i] < b[i]
       ELSE BytesBelow(a, b, i + 1)

\* The counter starts at zero and is only ever added to, so before its first
\* wrap its value is the number of calls made: EntityId id was returned by
\* one of the calls made before the behaviour starts iff some counter value
\* below the number of those calls has the bytes of its key.
ReturnedEarlier(id) ==
  /\ id.entity_kind = entity_ids.earlier.entity_kind
  /\ \/ entity_ids.earlier.calls[1] > 0
     \/ BytesBelow(<< 0 >> \o id.entity_key, entity_ids.earlier.calls, 1)

EntityUnchanged == UNCHANGED << discoveryVars, eventLoopVars, reactorVars, constructionVars, findTopicVars, channelVars, cryptoVars, dispatchVars, reliableVars, buildVars, lockVars, deliveryVars >>

\* A thread calls new_entity_id: the fetch_add, one atomic step.
FetchAdd(t, entity_kind) ==
  /\ new_entity_id_calls[t].pc = "idle"
  /\ entity_id_generator.calls < MaxNewEntityIds
  /\ entity_id_generator' =
       [ value |-> wrapping_add_one(entity_id_generator.value, Len(CounterBytes)),
         calls |-> entity_id_generator.calls + 1 ]
  /\ new_entity_id_calls' =
       [new_entity_id_calls EXCEPT ![t] =
          [ pc |-> "fetched", entity_kind |-> entity_kind,
            fetched |-> entity_id_generator.value ]]
  /\ UNCHANGED entity_ids
  /\ EntityUnchanged

\* The call returns the EntityId of the bytes it fetched.
ReturnEntityId(t) ==
  /\ new_entity_id_calls[t].pc = "fetched"
  /\ LET id == new_entity_id(new_entity_id_calls[t].fetched, new_entity_id_calls[t].entity_kind)
     IN entity_ids' =
          [entity_ids EXCEPT
             !.returned = @ \cup { id },
             !.repeated = IF id \in entity_ids.returned \/ ReturnedEarlier(id)
                          THEN @ \cup { id } ELSE @]
  /\ new_entity_id_calls' =
       [new_entity_id_calls EXCEPT ![t] = [ pc |-> "idle", entity_kind |-> "", fetched |-> << >> ]]
  /\ UNCHANGED entity_id_generator
  /\ EntityUnchanged

\* The numbers of calls of new_entity_id a participant has behind it when the
\* behaviour starts: none, some, almost as many as there are entity keys, and
\* almost as many as there are values of the counter.
EarlierCalls ==
  { << 0, 0, 0, 0 >>, << 0, 0, 0, ByteMax >>,
    << 0, ByteMax, ByteMax, ByteMax - 1 >>,
    << ByteMax, ByteMax, ByteMax, ByteMax - 1 >> }

\* A participant that has made some number of entities, all of one kind.
EntityInit ==
  /\ DiscoveryNew({})
  /\ EventLoopNew /\ ReactorNew /\ ConstructionNew /\ FindTopicNew
  /\ ChannelNew("discovery_command") /\ CodecNew /\ CryptoNew
  /\ DispatchNew /\ ReliableNew /\ BuildNew /\ LockNew /\ DeliveryNew
  /\ \E calls \in EarlierCalls, entity_kind \in EntityKinds :
       /\ entity_id_generator = [ value |-> calls, calls |-> 0 ]
       /\ entity_ids = [ earlier |-> [ calls |-> calls, entity_kind |-> entity_kind ],
                         returned |-> {}, repeated |-> {} ]
  /\ new_entity_id_calls =
       [t \in EntityThreads |-> [ pc |-> "idle", entity_kind |-> "", fetched |-> << >> ]]

DoFetchAdd == \E t \in EntityThreads, entity_kind \in EntityKinds : FetchAdd(t, entity_kind)

DoReturnEntityId == \E t \in EntityThreads : ReturnEntityId(t)

EntityNext == DoFetchAdd \/ DoReturnEntityId

EntitySpec == EntityInit /\ [][EntityNext]_vars

\* C38: no call of new_entity_id returns an EntityId that an earlier call of
\* the participant's life has returned, whichever threads make the calls.
C38_Distinct == entity_ids.repeated = {}

\* Two threads are in new_entity_id at once, each with its own fetched value,
\* and one call has returned an id that was given out before.
C38_Witness ==
  /\ \A t \in EntityThreads : new_entity_id_calls[t].pc = "fetched"
  /\ new_entity_id_calls["t1"].fetched # new_entity_id_calls["t2"].fetched
  /\ entity_ids.repeated # {}

\* The calls in flight never hold the same fetched value: the fetch_add is
\* atomic.
FetchedDiffer ==
  \A t, u \in EntityThreads :
    (t # u /\ new_entity_id_calls[t].pc = "fetched" /\ new_entity_id_calls[u].pc = "fetched")
      => new_entity_id_calls[t].fetched # new_entity_id_calls[u].fetched

\* While the counter has not passed the number of entity keys, no id is
\* repeated.
DistinctBeforeWrap ==
  (entity_ids.earlier.calls[1] = 0 /\ entity_id_generator.value[1] = 0)
    => entity_ids.repeated = {}

\* Calls of one thread after another near the start of the participant's
\* life: distinct ids of one kind.
C38_WitnessDistinct ==
  /\ entity_ids.earlier.calls[1] = 0
  /\ Cardinality(entity_ids.returned) = MaxNewEntityIds
  /\ Cardinality({ id.entity_kind : id \in entity_ids.returned }) = 1
  /\ entity_ids.repeated = {}

\* ------------------------------------- what is sent to the event loop

\* Messages sent to the event loop in one behaviour, over all its channels.
MaxDelivery == 2

\* The notifications and the ACKNACKs that are sent here.
DeliveryNotifications == { dnt \in DiscoveryNotificationType : dnt.t = "ParticipantLost" }

DeliveryAckNacks == { acknack \in AckNacks : acknack.kind = "ACKNACK" }

\* What can be sent next on channel c: the ingredients of a reader or writer
\* not made yet, the GUID of one that was made and not dropped yet, a
\* notification of Discovery, an ACKNACK from the message receiver.
Sendable(c) ==
  CASE c = "add_reader" ->
         IF app.participant = "alive"
         THEN UserReaders \ SeqRange(delivery.sent[c]) ELSE {}
    [] c = "remove_reader" ->
         IF app.participant = "alive"
         THEN SeqRange(delivery.sent["add_reader"]) \ SeqRange(delivery.sent[c]) ELSE {}
    [] c = "add_writer" ->
         IF app.participant = "alive"
         THEN UserWriters \ SeqRange(delivery.sent[c]) ELSE {}
    [] c = "remove_writer" ->
         IF app.participant = "alive"
         THEN SeqRange(delivery.sent["add_writer"]) \ SeqRange(delivery.sent[c]) ELSE {}
    [] c = "discovery_updated" -> DeliveryNotifications
    [] c = "acknack" -> DeliveryAckNacks

RECURSIVE SentOn(_)
\* The number of messages sent on the channels of set cs.
SentOn(cs) ==
  IF cs = {} THEN 0
  ELSE LET c == CHOOSE x \in cs : TRUE
       IN Len(delivery.sent[c]) + SentOn(cs \ {c})

\* The channel a token is registered for.
ChannelOf(token) == CHOOSE c \in DeliveryChannels : TokenOf(c) = token

RECURSIVE drain(_, _)
\* while let Ok(..) = receiver.try_recv(): every message queued is taken.
drain(rs, c) ==
  IF rs.channel[c] = << >> THEN rs ELSE drain(try_recv(rs, c), c)

\* The messages a handler has taken from channel c when it leaves rs.
Taken(rs, c) == SubSeq(channel[c], 1, Len(channel[c]) - Len(rs.channel[c]))

\* The reactor record becomes the state, the log and the dispatch of the
\* notifications and ACKNACKs that of the step.
CommitDelivery(rs, el, log) ==
  /\ channel' = rs.channel
  /\ readiness' = rs.readiness
  /\ event_loop' = rs.event_loop
  /\ poll_registered' = rs.poll_registered
  /\ writers' = [writers EXCEPT ![ReactorLocal] = rs.writers]
  /\ available_readers' = [available_readers EXCEPT ![ReactorLocal] = rs.available_readers]
  /\ local_writers' = el.writers
  /\ local_readers' = el.readers
  /\ dispatched' = IF el.calls = {} THEN dispatched
                   ELSE [ calls |-> el.calls, handled |-> dispatched.handled ]
  /\ delivery' = log
  /\ UNCHANGED << discoveryVars, discovery_command, app, discovery_update_notification, ack_nack >>
  /\ UNCHANGED << constructionVars, findTopicVars, channelVars, cryptoVars, reliableVars, buildVars, lockVars, entityVars >>

\* A sender puts a message on channel c.
SendToLoop(c, message) ==
  /\ message \in Sendable(c)
  /\ SentOn(DeliveryChannels) < MaxDelivery
  /\ Len(channel[c]) < ChannelCapacity(c)
  /\ CommitDelivery(send(Reactor, c, message), Dispatcher,
                    [delivery EXCEPT !.sent[c] = Append(@, message)])
  /\ UNCHANGED events

\* The body of "for event in events.iter()" for the next event, with what it
\* takes from the channel of the event.
DeliveryHandleEvent ==
  /\ ~event_loop.returned
  /\ events # << >>
  /\ LET token == Head(events)
         rs == CASE token = "STOP_POLL_TOKEN" -> handle_stop_poll(Reactor)
                 [] token \in {"ADD_READER_TOKEN", "REMOVE_READER_TOKEN"} ->
                      handle_reader_action(Reactor, token)
                 [] token \in {"ADD_WRITER_TOKEN", "REMOVE_WRITER_TOKEN"} ->
                      handle_writer_action(Reactor, token)
                 [] token = "ACKNACK_MESSAGE_TO_LOCAL_WRITER_TOKEN" ->
                      drain(Reactor, "acknack")
                 [] token = "DISCOVERY_UPDATE_NOTIFICATION_TOKEN" ->
                      drain(Reactor, "discovery_updated")
         el == CASE token = "ACKNACK_MESSAGE_TO_LOCAL_WRITER_TOKEN" ->
                      handle_writer_acknack_action(Dispatcher, channel["acknack"], 1)
                 [] token = "DISCOVERY_UPDATE_NOTIFICATION_TOKEN" ->
                      handle_discovery_notifications(Dispatcher, channel["discovery_updated"], 1)
                 [] OTHER -> Dispatcher
         log == IF token = "STOP_POLL_TOKEN" THEN [delivery EXCEPT !.taken = 0]
                ELSE [delivery EXCEPT
                        !.handled[ChannelOf(token)] = @ \o Taken(rs, ChannelOf(token)),
                        !.taken = Len(Taken(rs, ChannelOf(token)))]
     IN /\ CommitDelivery(rs, el, log)
        /\ events' = IF rs.event_loop.returned THEN << >> ELSE Tail(events)

\* The event loop has started with every channel registered and empty.
DeliveryInit ==
  /\ DiscoveryNew({})
  /\ EventLoopNew /\ ConstructionNew /\ FindTopicNew
  /\ ChannelNew("discovery_command") /\ CodecNew /\ CryptoNew
  /\ DispatchNew /\ ReliableNew /\ BuildNew /\ LockNew /\ EntityNew /\ DeliveryNew
  /\ channel = [c \in EventLoopChannels \cup DeliveryChannels |-> << >>]
  /\ readiness = << >>
  /\ events = << >>
  /\ event_loop = [ returned |-> FALSE, preparing_to_stop |-> FALSE,
                    acknack_timer |-> "armed", preemptive_acknacks |-> 0,
                    stop_poll_error |-> "" ]
  /\ poll_registered = {}
  /\ app = [ participant |-> "alive",
             entities |-> [e \in UserReaders \cup UserWriters |-> "none"] ]

DoSendToLoop == \E c \in DeliveryChannels : \E message \in Sendable(c) : SendToLoop(c, message)

DeliveryNext ==
  \/ Poll \/ DeliveryHandleEvent \/ DoSendToLoop
  \/ DropParticipantDisc \/ DropParticipantInner \/ JoinEventLoop

\* The event-loop thread keeps running: it polls, and it handles the events
\* of a poll.
DeliveryFairness == WF_vars(Poll) /\ WF_vars(DeliveryHandleEvent)

DeliverySpec == DeliveryInit /\ [][DeliveryNext]_vars /\ DeliveryFairness

\* What was sent on channel c is what was handled followed by what is queued.
InSendOrder(c) == delivery.sent[c] = delivery.handled[c] \o channel[c]

DeliveryInOrder == \A c \in DeliveryChannels : InSendOrder(c)

\* The n-th message of channel c has been sent / has been handled.
SentCount(c, n) == Len(delivery.sent[c]) >= n

HandledCount(c, n) == Len(delivery.handled[c]) >= n

\* C39: on each of the six channels the event loop handles what was sent,
\* each message once and in the order of sending, and every message sent is
\* handled in the end unless the event loop has returned.
C39_Delivered ==
  /\ []DeliveryInOrder
  /\ \A c \in DeliveryChannels : \A n \in 1..MaxDelivery :
       SentCount(c, n) ~> (HandledCount(c, n) \/ event_loop.returned)

\* Two messages were sent on one channel between two polls and the loop has
\* handled both, in their order.
C39_Witness ==
  \E c \in DeliveryChannels :
    /\ delivery.taken >= 2
    /\ Len(delivery.handled[c]) >= 2
    /\ delivery.handled[c] = delivery.sent[c]
    /\ delivery.handled[c][1] # delivery.handled[c][2]
    /\ ~event_loop.returned

\* Two messages wait on a channel whose one event is among those of the
\* last poll; nothing more is queued in the poller for it.
C39_WitnessOneEvent ==
  \E c \in DeliveryChannels :
    /\ Len(channel[c]) >= 2
    /\ Len(SelectSeq(events, LAMBDA token : token = TokenOf(c))) = 1
    /\ TokenOf(c) \notin SeqRange(readiness)
====
